---- MODULE Spec2Model ----
(***************************************************************************)
(* Character-sheet generation and training pipeline of CharForgex:         *)
(* the workflow model singletons (training/workflows, inference/workflows),*)
(* generate_char_sheet and gather_sheet_images (training/generate_sheet.py)*)
(* and build_character (train_character.py).                               *)
(***************************************************************************)
EXTENDS Naturals, Integers, Sequences, FiniteSets, TLC

VARIABLES
    COMFYUI_UPSCALE_MODELS,          \* upscale_grid_image.py global
    COMFY_EMOTION_LIGHTING_MODELS,   \* workflows/emotion_lighting.py global
    COMFY_MODELS,                    \* face_enhance.py global
    loadSeq,                         \* number of load_models() calls so far; names the objects a load creates
    loadCalls,                       \* per workflow: number of load_models() calls
    lastCall,                        \* the last singleton call: its name, workflow, and whether it raised
    pc,                              \* position of generate_char_sheet
    bpc,                             \* position of build_character
    pulidflux_images,                \* requested augmentation count
    stages,                          \* stages of generate_char_sheet run so far, in order
    work_dir,                        \* sheet directory: file name -> content
    trash,                           \* work_dir/trash: file name -> content
    timing_log,                      \* lines of the timing log
    pulid_image_paths,               \* paths returned by the augmentation stage (file names), or None
    sheet_images,                    \* list returned by gather_sheet_images
    image_info_json,                 \* keys written to image_info.json, in order
    result,                          \* what generate_char_sheet handed to its caller
    trainer,                         \* the external trainer subprocess: "idle", "launched"
    crop,                            \* the last crop_face call of create_multiview_images
    generator,                       \* the LoRAImageGen instance (test_character.py)
    ipc,                             \* position of the inference invocation (main of test_character.py)
    inv,                             \* arguments of the invocation
    lora,                            \* what find_character_lora finds under the work directory
    events,                          \* steps of the invocation done so far, in order
    images,                          \* the images the sampler returned, in memory
    output_dir,                      \* work_dir/output: file name -> [kind, dim]
    written,                         \* the files this invocation wrote into output_dir
    generated_files,                 \* the list generate() returned
    violations,                      \* the list check_safety returned
    invocations,                     \* invocations started on this instance
    call,                            \* the last call of a utility function: its name, arguments and result
    dataset,                         \* a dataset directory: file name -> [kind, size, content]
    apc,                             \* position of generate_synthetic_images
    num_images,                      \* the number of images asked for
    llm_calls,                       \* outcomes of the LLM calls of generate_pulidflux_prompts, in order
    prompts_status,                  \* generate_pulidflux_prompts: "none", "running", "returned", "raised"
    prompts,                         \* the prompts generate_pulidflux_prompts returned
    fal_calls,                       \* the image-API attempts of generate_pulidflux_images, in order
    output_image_paths               \* the list generate_pulidflux_images builds

singletonVars == <<COMFYUI_UPSCALE_MODELS, COMFY_EMOTION_LIGHTING_MODELS, COMFY_MODELS,
                   loadSeq, loadCalls, lastCall>>
sheetVars == <<pc, bpc, pulidflux_images, stages, timing_log, image_info_json, result, trainer,
               crop>>
dirVars == <<work_dir, trash, pulid_image_paths, sheet_images>>
inferVars == <<generator, ipc, inv, lora, events, images, output_dir, written, generated_files,
               violations, invocations>>
augVars == <<apc, num_images, llm_calls, prompts_status, prompts, fal_calls, output_image_paths>>
utilVars == <<call, dataset, augVars>>
vars == <<singletonVars, sheetVars, dirVars, inferVars, utilVars>>

(***************************************************************************)
(* Bounds                                                                  *)
(***************************************************************************)
MaxLoads == 4          \* load_models() calls explored per behaviour
MaxPulid == 2          \* largest requested augmentation count
MaxExtra == 3          \* extra files drawn into a directory handed to gather_sheet_images
MaxGatherCalls == 2    \* consecutive gather_sheet_images runs on one directory
MaxBatch == 2          \* largest batch_size of an inference invocation
MaxInvocations == 2    \* inference invocations on one LoRAImageGen instance
MaxPipeLoads == 2      \* FluxPipeline.from_pretrained calls on one instance
MaxFaces == 2          \* faces the detector reports in the cleaned reference image
MaxTemplate == 2       \* words of the training config template
MaxSide == 4           \* largest width and height of an image handed to the image helpers
MaxInputSide == 48     \* largest width and height handed to get_upscale_factor

\* no utility function has been called
NoCall == [fn |-> "none"]

InitAugIdle ==
    /\ apc = "idle" /\ num_images = 1
    /\ llm_calls = <<>> /\ prompts_status = "none" /\ prompts = <<>>
    /\ fal_calls = <<>> /\ output_image_paths = <<>>

InitUtilIdle == call = NoCall /\ dataset = <<>> /\ InitAugIdle

(***************************************************************************)
(* Workflow singletons.  A singleton is None or a mapping from role name   *)
(* to the loaded object; an object is named by the number of the           *)
(* load_models() call that created it, and 0 stands for Python's None.     *)
(***************************************************************************)
None == [unset |-> 0]

Workflows == {"upscale", "emotion", "face_enhance"}

\* the roles in the order load_models() loads them
UpscaleRoles == <<"checkpointloadersimple_48", "pulidfluxmodelloader_44",
                  "pulidfluxevacliploader_45", "pulidfluxinsightfaceloader_46",
                  "controlnetloader_49", "coremldetailerhookprovider_57",
                  "ultralyticsdetectorprovider_66", "upscalemodelloader_69">>

\* flux_model is taken from the upscale singleton; the other three are produced here
EmotionRoles == <<"flux_model", "photon_model", "loadandapplyiclightunet_723",
                  "modelpassthrough_1038">>

FaceEnhanceRoles == <<"checkpoint", "pulidfluxmodelloader_44", "pulidfluxevacliploader_45",
                      "pulidfluxinsightfaceloader_46", "controlnetloader_49">>

Range(s) == {s[i] : i \in 1..Len(s)}

\* load_models() of a plain workflow: the roles are loaded in order; when the
\* failAt-th load throws (failAt = 0: none does) the call raises, and `models'
\* is what had been loaded up to that point.
LoadInOrder(roles, gen, failAt) ==
    [raised |-> failAt # 0,
     models |-> [r \in Range(roles) |->
                   IF failAt = 0 \/ (\E i \in 1..(failAt - 1) : roles[i] = r) THEN gen ELSE 0]]

upscale_load_models(gen, failAt) == LoadInOrder(UpscaleRoles, gen, failAt)

face_enhance_load_models(gen, failAt) == LoadInOrder(FaceEnhanceRoles, gen, failAt)

\* initialize_*: [models |-> the singleton afterwards, raised, loads |-> load_models() calls made]
initialize_upscale_models_partial(cur, gen, failAt) ==
    IF cur = None
    THEN LET r == upscale_load_models(gen, failAt)
         IN [models |-> r.models, raised |-> r.raised, loads |-> 1]
    ELSE [models |-> cur, raised |-> FALSE, loads |-> 0]

initialize_upscale_models_unguarded(cur, gen, failAt) ==
    LET r == upscale_load_models(gen, failAt)
    IN [models |-> IF r.raised THEN cur ELSE r.models, raised |-> r.raised, loads |-> 1]

initialize_upscale_models(cur, gen, failAt) ==
    IF cur = None
    THEN LET r == upscale_load_models(gen, failAt)
         IN [models |-> IF r.raised THEN None ELSE r.models, raised |-> r.raised, loads |-> 1]
    ELSE [models |-> cur, raised |-> FALSE, loads |-> 0]

initialize_models(cur, gen, failAt) ==
    IF cur = None
    THEN LET r == face_enhance_load_models(gen, failAt)
         IN [models |-> IF r.raised THEN None ELSE r.models, raised |-> r.raised, loads |-> 1]
    ELSE [models |-> cur, raised |-> FALSE, loads |-> 0]

\* emotion_lighting.load_models(): first initialize_upscale_models(), then the
\* Flux checkpoint object is taken from the upscale singleton, then photon,
\* IC-Light and the pass-through of the Flux model are produced (emoFail names
\* the one that throws: 1 photon, 2 IC-Light, 3 pass-through).
emotion_load_models(up, gen, upFail, emoFail) ==
    LET u == initialize_upscale_models(up, gen, upFail)
        g == gen + u.loads
    IN  IF u.raised \/ u.models = None
        THEN [raised |-> TRUE, upscale |-> u.models, upLoads |-> u.loads,
              models |-> [r \in Range(EmotionRoles) |-> 0]]
        ELSE LET flux == u.models["checkpointloadersimple_48"]
             IN [raised |-> emoFail # 0, upscale |-> u.models, upLoads |-> u.loads,
                 models |-> [r \in Range(EmotionRoles) |->
                     CASE r = "flux_model" -> flux
                       [] r = "photon_model" -> IF emoFail = 1 THEN 0 ELSE g
                       [] r = "loadandapplyiclightunet_723" -> IF emoFail \in {1, 2} THEN 0 ELSE g
                       [] OTHER -> IF emoFail # 0 THEN 0 ELSE flux]]

initialize_emotion_lighting_models(cur, up, gen, upFail, emoFail) ==
    IF cur = None
    THEN LET r == emotion_load_models(up, gen, upFail, emoFail)
         IN [models |-> IF r.raised THEN None ELSE r.models, upscale |-> r.upscale,
             raised |-> r.raised, loads |-> 1, upLoads |-> r.upLoads]
    ELSE [models |-> cur, upscale |-> up, raised |-> FALSE, loads |-> 0, upLoads |-> 0]

\* cleanup_models() of each workflow: every value of the mapping is set to
\* None and the global is dropped; other holders of the objects keep them.
cleanup_models_keep(cur) == cur

cleanup_models(cur) == None

(***************************************************************************)
(* Work directory.  A file name is <<stem, extension>> (os.path.splitext); *)
(* a directory maps the names it holds to their content, and the content   *)
(* "dir" marks a sub-directory.                                            *)
(***************************************************************************)
Png(stem) == <<stem, ".png">>

\* str.lower() on the extensions that occur
Lower(ext) ==
    CASE ext = ".PNG" -> ".png"
      [] ext = ".JPG" -> ".jpg"
      [] OTHER -> ext

\* generate_sheet.py line 74
image_extensions == {".png", ".jpg", ".jpeg", ".gif", ".bmp", ".webp"}

\* generate_sheet.py lines 48-62
selected_images_base ==
    << Png("upscaled_multiview_1"), Png("upscaled_multiview_2"), Png("upscaled_multiview_3"),
       Png("upscaled_multiview_4"), Png("upscaled_multiview_5"), Png("face_upscaled"),
       Png("original"), Png("upscaled_lighting_0"), Png("upscaled_lighting_1"),
       Png("upscaled_lighting_2"), Png("upscaled_lighting_3"), Png("upscaled_emotions_1"),
       Png("upscaled_emotions_3") >>

Exists(dir, f) == f \in DOMAIN dir

IsDir(dir, f) == f \in DOMAIN dir /\ dir[f] = "dir"

\* dir with the files of `names' written with `content'
WriteFiles(dir, names, content) ==
    [f \in (DOMAIN dir) \cup names |-> IF f \in names THEN content ELSE dir[f]]

RemoveFiles(dir, names) == [f \in (DOMAIN dir) \ names |-> dir[f]]

RECURSIVE DedupExisting(_, _, _)
\* lines 88-94: the names of `imgs' that exist, in order, each once
DedupExisting(imgs, dir, seen) ==
    IF imgs = <<>> THEN <<>>
    ELSE LET img == Head(imgs)
         IN IF img \notin seen /\ Exists(dir, img)
            THEN <<img>> \o DedupExisting(Tail(imgs), dir, seen \cup {img})
            ELSE DedupExisting(Tail(imgs), dir, seen)

\* pulid_image_paths is None or a list of paths
NonePaths == [none |-> TRUE, list |-> <<>>]

\* Python's False as the value crop_face returns instead of a path
FalseSentinel == <<"False", "">>

\* no crop_face call yet
NoCrop == [called |-> FALSE, dets |-> 0, raised |-> FALSE, path |-> FalseSentinel]

\* crop_face(cleaned_reference, output_dir, "face_reference.png") after the
\* detector answered (utilities.py lines 352-394): dets faces were found; with
\* more than one the most confident is kept; an exception while cropping or
\* saving (cropFailed) is caught and also gives False
crop_face_asserting(dets, cropFailed) ==
    IF dets = 0 THEN [called |-> TRUE, dets |-> dets, raised |-> TRUE, path |-> FalseSentinel]
    ELSE IF cropFailed
    THEN [called |-> TRUE, dets |-> dets, raised |-> FALSE, path |-> FalseSentinel]
    ELSE [called |-> TRUE, dets |-> dets, raised |-> FALSE, path |-> Png("face_reference")]

crop_face(dets, cropFailed) ==
    IF dets = 0 \/ cropFailed
    THEN [called |-> TRUE, dets |-> dets, raised |-> FALSE, path |-> FalseSentinel]
    ELSE [called |-> TRUE, dets |-> dets, raised |-> FALSE, path |-> Png("face_reference")]

\* multiview.py lines 241-245: the image the face anchor is made from
face_reference_path(c) == IF c.path = FalseSentinel THEN Png("cleaned_reference") ELSE c.path

\* content of face_upscaled.png: upscale_image of that image (lines 247-250)
UpscaleOf(src) ==
    IF src = Png("cleaned_reference") THEN "upscaled cleaned_reference"
    ELSE "upscaled face_reference"

PathList(l) == [none |-> FALSE, list |-> l]

\* `if pulid_image_paths:'
Truthy(paths) == ~paths.none /\ paths.list # <<>>

\* the list built at lines 48-66
SelectedImages(paths) ==
    IF Truthy(paths) THEN selected_images_base \o paths.list ELSE selected_images_base

\* the files the loop at lines 77-85 moves
NonSelected(dir, paths) ==
    {f \in DOMAIN dir : /\ ~IsDir(dir, f)
                        /\ Lower(f[2]) \in image_extensions
                        /\ f \notin Range(SelectedImages(paths))}

TrashName == <<"trash", "">>

gather_sheet_images_delete(dir, tr, paths) ==
    LET moved == NonSelected(dir, paths)
        after == WriteFiles(RemoveFiles(dir, moved), {TrashName}, "dir")
    IN [work_dir |-> after, trash |-> tr,
        sheet_image_paths |-> DedupExisting(SelectedImages(paths), after, {})]

\* gather_sheet_images(work_dir, pulid_image_paths): the directory and its
\* trash/ afterwards, and the returned list (paths are given by file name)
gather_sheet_images(dir, tr, paths) ==
    LET moved == NonSelected(dir, paths)
        after == WriteFiles(RemoveFiles(dir, moved), {TrashName}, "dir")
    IN [work_dir |-> after,
        trash |-> [f \in (DOMAIN tr) \cup moved |-> IF f \in moved THEN dir[f] ELSE tr[f]],
        sheet_image_paths |-> DedupExisting(SelectedImages(paths), after, {})]

(***************************************************************************)
(* LoRAImageGen (test_character.py) with its SafetyChecker                 *)
(* (inference/safety.py): one instance, prepare() and the invocations that *)
(* main() makes on it.  An output file is named <<stamp, i, suffix>> and   *)
(* holds [kind, dim]: what the image shows and its side length.            *)
(***************************************************************************)
\* --test_dim values: the default of line 229 and a smaller one
TestDims == {512, 1024}

\* find_character_lora looks for work_dir, work_dir/char, work_dir/char/char.safetensors
LoraStates == {"no_work_dir", "no_lora_dir", "no_file", "present"}

\* the character names generate() is called with; the adapters of earlier
\* invocations are followed only as "earlier" (EarlierLoras), so one name is
\* enough to tell the adapter of this invocation from theirs
Characters == {"alice"}

\* LoRAImageGen.__init__ (lines 17-24) and SafetyChecker.__init__ (lines 13-16);
\* pipe and model are 0 for None, else the number of objects loaded so far;
\* loras are the LoRA adapters the pipeline object holds, in loading order
NewGenerator(face_enhance) ==
    [is_prepared |-> FALSE, pipe |-> 0, loras |-> <<>>,
     safety_checker |-> [is_prepared |-> FALSE, model |-> 0],
     face_enhance |-> face_enhance, face_enhancer_prepared |-> FALSE]

\* defaults of generate() (lines 92-105) with main's safety_check default
DefaultInvocation ==
    [batch_size |-> 1, test_dim |-> 1024, safety_check |-> TRUE, face_enhance |-> FALSE,
     named |-> FALSE, character_name |-> "alice"]

\* SafetyChecker.prepare (lines 18-48): the classifier model is loaded, then
\* its processor; is_prepared is set after both.  outcome is "ok",
\* "model_failed" or "processor_failed"
SafetyChecker_prepare(sc, outcome) ==
    IF sc.is_prepared THEN [self |-> sc, raised |-> FALSE]
    ELSE CASE outcome = "ok" ->
                [self |-> [is_prepared |-> TRUE, model |-> sc.model + 1], raised |-> FALSE]
           [] outcome = "model_failed" -> [self |-> sc, raised |-> TRUE]
           [] OTHER ->
                [self |-> [is_prepared |-> FALSE, model |-> sc.model + 1], raised |-> TRUE]

\* LoRAImageGen.prepare (lines 26-45): the pipeline is loaded, then the safety
\* checker is prepared, then (face_enhance) FaceEnhancer.prepare calls
\* initialize_models; is_prepared is set last
prepare(self, models, gen, pipeOk, scOutcome, feFailAt) ==
    IF self.is_prepared
    THEN [self |-> self, models |-> models, loads |-> 0, enhancer_called |-> FALSE,
          raised |-> FALSE]
    ELSE IF ~pipeOk
    THEN [self |-> self, models |-> models, loads |-> 0, enhancer_called |-> FALSE,
          raised |-> TRUE]
    ELSE LET sc == SafetyChecker_prepare(self.safety_checker, scOutcome)
             checked == [self EXCEPT !.pipe = @ + 1, !.loras = <<>>, !.safety_checker = sc.self]
             fe == initialize_models(models, gen, feFailAt)
         IN IF sc.raised
            THEN [self |-> checked, models |-> models, loads |-> 0, enhancer_called |-> FALSE,
                  raised |-> TRUE]
            ELSE IF ~self.face_enhance
            THEN [self |-> [checked EXCEPT !.is_prepared = TRUE], models |-> models,
                  loads |-> 0, enhancer_called |-> FALSE, raised |-> FALSE]
            ELSE IF fe.raised
            THEN [self |-> checked, models |-> fe.models, loads |-> fe.loads,
                  enhancer_called |-> TRUE, raised |-> TRUE]
            ELSE [self |-> [checked EXCEPT !.is_prepared = TRUE,
                                           !.face_enhancer_prepared = TRUE],
                  models |-> fe.models, loads |-> fe.loads, enhancer_called |-> TRUE,
                  raised |-> FALSE]

\* find_character_lora (helpers.py lines 53-69)
find_character_lora_dir_only(found) == [raised |-> found \in {"no_work_dir", "no_lora_dir"}]

find_character_lora(found) == [raised |-> found # "present"]

\* control flow of generate() (lines 132-180), do_inference (lines 63-90) and
\* main (lines 255-270): the step after `step'
NextInferStep_without_lora(step, face_enhance, safety_check) ==
    CASE step = "find_character_lora" -> "prepare"
      [] step = "prepare" -> "sample"
      [] step = "load_lora_weights" -> "sample"
      [] step = "sample" -> "save_images_to_files"
      [] step = "save_images_to_files" ->
            IF face_enhance THEN "face_enhance"
            ELSE IF safety_check THEN "check_safety" ELSE "done"
      [] step = "face_enhance" -> IF safety_check THEN "check_safety" ELSE "done"
      [] OTHER -> "done"

NextInferStep(step, face_enhance, safety_check) ==
    CASE step = "find_character_lora" -> "prepare"
      [] step = "prepare" -> "load_lora_weights"
      [] step = "load_lora_weights" -> "sample"
      [] step = "sample" -> "save_images_to_files"
      [] step = "save_images_to_files" ->
            IF face_enhance THEN "face_enhance"
            ELSE IF safety_check THEN "check_safety" ELSE "done"
      [] step = "face_enhance" -> IF safety_check THEN "check_safety" ELSE "done"
      [] OTHER -> "done"

\* lines 141-144: given names are the same in every invocation, default
\* names carry the time stamp of the invocation
output_filenames(named, stamp, batch_size) ==
    [i \in 1..batch_size |-> <<IF named THEN 0 ELSE stamp, i, "">>]

\* lines 166-170
enhanced_filenames(names) == [i \in 1..Len(names) |-> <<names[i][1], names[i][2], "_enhanced">>]

\* save_images_to_files (lines 199-217)
save_images_to_files(image_bytes_list, dir, names, dim) ==
    LET saved == {names[i] : i \in 1..Len(image_bytes_list)}
    IN [saved_files |-> [i \in 1..Len(image_bytes_list) |-> names[i]],
        output_dir |-> [f \in (DOMAIN dir) \cup saved |->
                           IF f \in saved
                           THEN [kind |-> image_bytes_list[
                                     CHOOSE i \in 1..Len(image_bytes_list) : names[i] = f],
                                 dim |-> dim]
                           ELSE dir[f]]]

\* FaceEnhancer.process (postprocess.py lines 47-57, face_enhance.py lines
\* 229-326): each input image is re-rendered at its own size and saved under
\* the enhanced name
face_enhancer_process(dir, input_image, names) ==
    LET saved == {names[i] : i \in 1..Len(input_image)}
    IN [saved_files |-> names,
        output_dir |-> [f \in (DOMAIN dir) \cup saved |->
                           IF f \in saved
                           THEN dir[input_image[CHOOSE i \in 1..Len(input_image) : names[i] = f]]
                           ELSE dir[f]]]

\* SafetyChecker.check (lines 50-100): the label of the classifier, and FALSE
\* when opening or classifying the image raised (erred)
check(dir, f, erred) == IF erred \/ f \notin DOMAIN dir THEN FALSE ELSE dir[f].kind = "nsfw"

\* SafetyChecker.check_multiple (lines 102-116)
check_multiple(dir, files, errs) == [i \in 1..Len(files) |-> check(dir, files[i], i \in errs)]

\* create_blank_image (lines 119-143)
create_blank_image(width) == [kind |-> "placeholder", dim |-> width]

\* LoRAImageGen.check_safety (lines 182-196)
check_safety_default_size(dir, files, test_dim, errs) ==
    LET v == check_multiple(dir, files, errs)
    IN [violations |-> v,
        output_dir |-> [f \in DOMAIN dir |->
                           IF \E i \in 1..Len(files) : files[i] = f /\ v[i]
                           THEN create_blank_image(1024) ELSE dir[f]]]

check_safety(dir, files, test_dim, errs) ==
    LET v == check_multiple(dir, files, errs)
    IN [violations |-> v,
        output_dir |-> [f \in DOMAIN dir |->
                           IF \E i \in 1..Len(files) : files[i] = f /\ v[i]
                           THEN create_blank_image(test_dim) ELSE dir[f]]]

FaceEnhanceOn == inv.face_enhance /\ generator.face_enhance

inferIdle == UNCHANGED <<sheetVars, dirVars, utilVars>>

\* a step of the invocation ended: by an exception, or normally
InferRaises(step) ==
    /\ events' = Append(events, step)
    /\ ipc' = "raised"

InferDone(step) ==
    /\ events' = Append(events, step)
    /\ ipc' = NextInferStep(step, FaceEnhanceOn, inv.safety_check)

\* self.prepare() with its effect on the face-enhance singleton
PrepareEffect(r) ==
    /\ generator' = r.self
    /\ COMFY_MODELS' = r.models
    /\ loadSeq' = loadSeq + r.loads
    /\ loadCalls' = [loadCalls EXCEPT !["face_enhance"] = @ + r.loads]
    /\ lastCall' = IF r.enhancer_called
                   THEN [op |-> "initialize", wf |-> "face_enhance", raised |-> r.raised]
                   ELSE lastCall
    /\ UNCHANGED <<COMFYUI_UPSCALE_MODELS, COMFY_EMOTION_LIGHTING_MODELS>>

PrepareGuard ==
    /\ generator.is_prepared \/ generator.pipe < MaxPipeLoads
    /\ loadSeq < MaxLoads

\* the worker prepares the instance ahead of generate() (handler.py line 367)
PrepareCall ==
    /\ ipc = "idle"
    /\ PrepareGuard
    /\ \E pipeOk \in BOOLEAN, scOutcome \in {"ok", "model_failed", "processor_failed"},
          feFailAt \in 0..Len(FaceEnhanceRoles) :
         PrepareEffect(prepare(generator, COMFY_MODELS, loadSeq + 1, pipeOk, scOutcome, feFailAt))
    /\ UNCHANGED <<ipc, inv, lora, events, images, output_dir, written, generated_files,
                   violations, invocations>>
    /\ inferIdle

\* main calls generate(): lines 123-144, up to the output file names
StartGenerate ==
    /\ ipc = "idle"
    /\ invocations < MaxInvocations
    /\ \E batch_size \in 1..MaxBatch, test_dim \in TestDims, safety_check \in BOOLEAN,
          face_enhance \in BOOLEAN, named \in BOOLEAN, found \in LoraStates,
          character_name \in Characters :
         /\ inv' = [batch_size |-> batch_size, test_dim |-> test_dim,
                    safety_check |-> safety_check, face_enhance |-> face_enhance,
                    named |-> named, character_name |-> character_name]
         /\ lora' = found
         /\ ipc' = IF find_character_lora(found).raised THEN "raised"
                   ELSE NextInferStep("find_character_lora",
                                      face_enhance /\ generator.face_enhance, safety_check)
    /\ events' = <<"find_character_lora">>
    /\ invocations' = invocations + 1
    /\ images' = <<>> /\ written' = {} /\ generated_files' = <<>> /\ violations' = <<>>
    /\ UNCHANGED <<generator, output_dir, singletonVars>>
    /\ inferIdle

\* line 147
GeneratePrepare ==
    /\ ipc = "prepare"
    /\ PrepareGuard
    /\ \E pipeOk \in BOOLEAN, scOutcome \in {"ok", "model_failed", "processor_failed"},
          feFailAt \in 0..Len(FaceEnhanceRoles) :
         LET r == prepare(generator, COMFY_MODELS, loadSeq + 1, pipeOk, scOutcome, feFailAt)
         IN /\ PrepareEffect(r)
            /\ IF r.raised THEN InferRaises("prepare") ELSE InferDone("prepare")
    /\ UNCHANGED <<inv, lora, images, output_dir, written, generated_files, violations,
                   invocations>>
    /\ inferIdle

\* pipe.load_lora_weights(lora_path): the adapter is added to those the
\* pipeline object already holds; do_inference and generate never call
\* unload_lora_weights, delete_adapters or set_adapters
load_lora_weights(loras, lora_path) == Append(loras, lora_path)

\* do_inference line 66
LoadLoraWeights ==
    /\ ipc = "load_lora_weights"
    /\ \E ok \in BOOLEAN :
         IF ok
         THEN /\ generator' = [generator EXCEPT
                                  !.loras = load_lora_weights(@, inv.character_name)]
              /\ InferDone("load_lora_weights")
         ELSE /\ UNCHANGED generator
              /\ InferRaises("load_lora_weights")
    /\ UNCHANGED <<inv, lora, images, output_dir, written, generated_files,
                   violations, invocations, singletonVars>>
    /\ inferIdle

\* do_inference lines 69-90: batch_size images, in memory
Sample ==
    /\ ipc = "sample"
    /\ \E ok \in BOOLEAN :
         IF ok
         THEN /\ images' \in [1..inv.batch_size -> {"safe", "nsfw"}]
              /\ InferDone("sample")
         ELSE /\ UNCHANGED images
              /\ InferRaises("sample")
    /\ UNCHANGED <<generator, inv, lora, output_dir, written, generated_files, violations,
                   invocations, singletonVars>>
    /\ inferIdle

\* line 161
SaveImages ==
    /\ ipc = "save_images_to_files"
    /\ LET r == save_images_to_files(images, output_dir,
                    output_filenames(inv.named, invocations, inv.batch_size), inv.test_dim)
       IN /\ output_dir' = r.output_dir
          /\ generated_files' = r.saved_files
          /\ written' = written \cup Range(r.saved_files)
    /\ InferDone("save_images_to_files")
    /\ UNCHANGED <<generator, inv, lora, images, violations, invocations, singletonVars>>
    /\ inferIdle

\* lines 163-178
FaceEnhance ==
    /\ ipc = "face_enhance"
    /\ \E ok \in BOOLEAN :
         IF ok
         THEN LET r == face_enhancer_process(output_dir, generated_files,
                           enhanced_filenames(generated_files))
              IN /\ output_dir' = r.output_dir
                 /\ generated_files' = r.saved_files
                 /\ written' = written \cup Range(r.saved_files)
                 /\ InferDone("face_enhance")
         ELSE /\ UNCHANGED <<output_dir, generated_files, written>>
              /\ InferRaises("face_enhance")
    /\ UNCHANGED <<generator, inv, lora, images, violations, invocations, singletonVars>>
    /\ inferIdle

\* main lines 269-270
CheckSafety ==
    /\ ipc = "check_safety"
    /\ \E errs \in SUBSET (1..Len(generated_files)) :
         LET r == check_safety(output_dir, generated_files, inv.test_dim, errs)
         IN /\ violations' = r.violations
            /\ output_dir' = r.output_dir
    /\ InferDone("check_safety")
    /\ UNCHANGED <<generator, inv, lora, images, written, generated_files, invocations,
                   singletonVars>>
    /\ inferIdle

\* a file left in the output directory by an earlier invocation: what it
\* shows is no longer followed
OldFile == [kind |-> "old"]

\* the adapters a pipeline holds from earlier invocations: which characters
\* they belong to is no longer followed
EarlierLoras(loras) == IF loras = <<>> THEN <<>> ELSE <<"earlier">>

\* the invocation is over and its locals are gone; the instance and the
\* files in the output directory are kept for the next one
ReturnToCaller ==
    /\ ipc \in {"done", "raised"}
    /\ ipc' = "idle"
    /\ generator' = [generator EXCEPT !.loras = EarlierLoras(@)]
    /\ output_dir' = [f \in DOMAIN output_dir |-> OldFile]
    /\ inv' = DefaultInvocation
    /\ lora' = "present"
    /\ events' = <<>> /\ images' = <<>>
    /\ written' = {} /\ generated_files' = <<>> /\ violations' = <<>>
    /\ UNCHANGED <<invocations, singletonVars>>
    /\ inferIdle

InitInferIdle ==
    /\ generator = NewGenerator(FALSE)
    /\ ipc = "idle"
    /\ inv = DefaultInvocation
    /\ lora = "present"
    /\ events = <<>> /\ images = <<>>
    /\ output_dir = <<>> /\ written = {}
    /\ generated_files = <<>> /\ violations = <<>>
    /\ invocations = 0

(***************************************************************************)
(* Singleton calls as actions                                              *)
(***************************************************************************)
sheetIdle == UNCHANGED <<sheetVars, dirVars, inferVars, utilVars>>

InitializeUpscale ==
    /\ loadSeq < MaxLoads
    /\ \E failAt \in 0..Len(UpscaleRoles) :
         LET r == initialize_upscale_models(COMFYUI_UPSCALE_MODELS, loadSeq + 1, failAt)
         IN /\ COMFYUI_UPSCALE_MODELS' = r.models
            /\ loadSeq' = loadSeq + r.loads
            /\ loadCalls' = [loadCalls EXCEPT !["upscale"] = @ + r.loads]
            /\ lastCall' = [op |-> "initialize", wf |-> "upscale", raised |-> r.raised]
    /\ UNCHANGED <<COMFY_EMOTION_LIGHTING_MODELS, COMFY_MODELS>>
    /\ sheetIdle

CleanupUpscale ==
    /\ COMFYUI_UPSCALE_MODELS' = cleanup_models(COMFYUI_UPSCALE_MODELS)
    /\ lastCall' = [op |-> "cleanup", wf |-> "upscale", raised |-> FALSE]
    /\ UNCHANGED <<COMFY_EMOTION_LIGHTING_MODELS, COMFY_MODELS, loadSeq, loadCalls>>
    /\ sheetIdle

InitializeEmotion ==
    /\ loadSeq + 1 < MaxLoads
    /\ \E upFail \in 0..Len(UpscaleRoles), emoFail \in 0..3 :
         LET r == initialize_emotion_lighting_models(COMFY_EMOTION_LIGHTING_MODELS,
                      COMFYUI_UPSCALE_MODELS, loadSeq + 1, upFail, emoFail)
         IN /\ COMFY_EMOTION_LIGHTING_MODELS' = r.models
            /\ COMFYUI_UPSCALE_MODELS' = r.upscale
            /\ loadSeq' = loadSeq + r.loads + r.upLoads
            /\ loadCalls' = [loadCalls EXCEPT !["emotion"] = @ + r.loads,
                                              !["upscale"] = @ + r.upLoads]
            /\ lastCall' = [op |-> "initialize", wf |-> "emotion", raised |-> r.raised]
    /\ UNCHANGED COMFY_MODELS
    /\ sheetIdle

CleanupEmotion ==
    /\ COMFY_EMOTION_LIGHTING_MODELS' = cleanup_models(COMFY_EMOTION_LIGHTING_MODELS)
    /\ lastCall' = [op |-> "cleanup", wf |-> "emotion", raised |-> FALSE]
    /\ UNCHANGED <<COMFYUI_UPSCALE_MODELS, COMFY_MODELS, loadSeq, loadCalls>>
    /\ sheetIdle

InitializeFaceEnhance ==
    /\ loadSeq < MaxLoads
    /\ \E failAt \in 0..Len(FaceEnhanceRoles) :
         LET r == initialize_models(COMFY_MODELS, loadSeq + 1, failAt)
         IN /\ COMFY_MODELS' = r.models
            /\ loadSeq' = loadSeq + r.loads
            /\ loadCalls' = [loadCalls EXCEPT !["face_enhance"] = @ + r.loads]
            /\ lastCall' = [op |-> "initialize", wf |-> "face_enhance", raised |-> r.raised]
    /\ UNCHANGED <<COMFYUI_UPSCALE_MODELS, COMFY_EMOTION_LIGHTING_MODELS>>
    /\ sheetIdle

CleanupFaceEnhance ==
    /\ COMFY_MODELS' = cleanup_models(COMFY_MODELS)
    /\ lastCall' = [op |-> "cleanup", wf |-> "face_enhance", raised |-> FALSE]
    /\ UNCHANGED <<COMFYUI_UPSCALE_MODELS, COMFY_EMOTION_LIGHTING_MODELS, loadSeq, loadCalls>>
    /\ sheetIdle

NoFiles == <<>>

InitSingletons ==
    /\ COMFYUI_UPSCALE_MODELS = None
    /\ COMFY_EMOTION_LIGHTING_MODELS = None
    /\ COMFY_MODELS = None
    /\ loadSeq = 0
    /\ loadCalls = [w \in Workflows |-> 0]
    /\ lastCall = [op |-> "none", wf |-> "none", raised |-> FALSE]

InitSheetIdle ==
    /\ pc = "idle"
    /\ bpc = "idle"
    /\ pulidflux_images = 0
    /\ stages = <<>>
    /\ work_dir = NoFiles
    /\ trash = NoFiles
    /\ timing_log = <<>>
    /\ pulid_image_paths = NonePaths
    /\ sheet_images = <<>>
    /\ image_info_json = <<>>
    /\ result = None
    /\ trainer = "idle"
    /\ crop = NoCrop

SingletonInit == InitSingletons /\ InitSheetIdle /\ InitInferIdle /\ InitUtilIdle

InferInit ==
    /\ InitSingletons
    /\ InitSheetIdle
    /\ InitUtilIdle
    /\ \E face_enhance \in BOOLEAN : generator = NewGenerator(face_enhance)
    /\ ipc = "idle"
    /\ inv = DefaultInvocation
    /\ lora = "present"
    /\ events = <<>> /\ images = <<>>
    /\ output_dir = <<>> /\ written = {}
    /\ generated_files = <<>> /\ violations = <<>>
    /\ invocations = 0

InferNext ==
    \/ PrepareCall
    \/ StartGenerate
    \/ GeneratePrepare
    \/ LoadLoraWeights
    \/ Sample
    \/ SaveImages
    \/ FaceEnhance
    \/ CheckSafety
    \/ ReturnToCaller

SpecInfer == InferInit /\ [][InferNext]_vars

SingletonNext ==
    \/ InitializeUpscale
    \/ CleanupUpscale
    \/ InitializeEmotion
    \/ CleanupEmotion
    \/ InitializeFaceEnhance
    \/ CleanupFaceEnhance

SpecSingleton == SingletonInit /\ [][SingletonNext]_vars

(***************************************************************************)
(* Properties of the workflow singletons                                   *)
(***************************************************************************)
\* one step of one singleton: its value before and after, its load count before and after
OneLoadPerTransition(before, after, n, m, raisedNow) ==
    /\ m \in {n, n + 1}
    /\ (before = None /\ after # None) => m = n + 1
    /\ before # None => m = n
    /\ (before = None /\ after = None /\ m # n) => raisedNow

\* C4: for each workflow singleton the model load runs exactly once per
\* transition from unset to set: a step that sets an unset singleton makes
\* exactly one load_models() call, a call on a singleton that is already set
\* makes none, and a load that sets nothing is one that raised.
C4_OneLoadPerTransition ==
    [][ /\ OneLoadPerTransition(COMFYUI_UPSCALE_MODELS, COMFYUI_UPSCALE_MODELS',
                                loadCalls["upscale"], loadCalls'["upscale"], lastCall'.raised)
        /\ OneLoadPerTransition(COMFY_EMOTION_LIGHTING_MODELS, COMFY_EMOTION_LIGHTING_MODELS',
                                loadCalls["emotion"], loadCalls'["emotion"], lastCall'.raised)
        /\ OneLoadPerTransition(COMFY_MODELS, COMFY_MODELS',
                                loadCalls["face_enhance"], loadCalls'["face_enhance"], lastCall'.raised)
      ]_vars

\* cleanup() followed by initialize() has loaded the upscale models a second time
C4_Witness ==
    /\ loadCalls["upscale"] = 2
    /\ COMFYUI_UPSCALE_MODELS # None
    /\ lastCall = [op |-> "initialize", wf |-> "upscale", raised |-> FALSE]

FullyLoaded(s) == \A r \in DOMAIN s : s[r] # 0

SingletonOf(w) ==
    CASE w = "upscale" -> COMFYUI_UPSCALE_MODELS
      [] w = "emotion" -> COMFY_EMOTION_LIGHTING_MODELS
      [] OTHER -> COMFY_MODELS

\* C5: a singleton is never a partially populated mapping: it is unset or
\* holds every role, and after an initialize() that raised it is unset.
C5_UnsetOnPartialFailure ==
    /\ \A w \in Workflows : SingletonOf(w) = None \/ FullyLoaded(SingletonOf(w))
    /\ (lastCall.op = "initialize" /\ lastCall.raised) => SingletonOf(lastCall.wf) = None

\* initialize() of the emotion/lighting workflow raised in its own sub-model
\* loads, after its nested upscale load had succeeded
C5_Witness ==
    /\ lastCall = [op |-> "initialize", wf |-> "emotion", raised |-> TRUE]
    /\ COMFY_EMOTION_LIGHTING_MODELS = None
    /\ COMFYUI_UPSCALE_MODELS # None

\* the weight file behind each role (ckpt_name / model_path arguments of the loaders)
UpscaleModelFile(r) ==
    CASE r = "checkpointloadersimple_48" -> "flux1-dev-fp8.safetensors"
      [] r = "pulidfluxmodelloader_44" -> "pulid_flux_v0.9.1.safetensors"
      [] r = "pulidfluxevacliploader_45" -> "eva_clip"
      [] r = "pulidfluxinsightfaceloader_46" -> "insightface"
      [] r = "controlnetloader_49" -> "Flux_Dev_ControlNet_Union_Pro_ShakkerLabs.safetensors"
      [] r = "coremldetailerhookprovider_57" -> "coreml_768x768"
      [] r = "ultralyticsdetectorprovider_66" -> "bbox/face_yolov8m.pt"
      [] OTHER -> "4x-ClearRealityV1.pth"

EmotionModelFile(r) ==
    CASE r = "flux_model" -> "flux1-dev-fp8.safetensors"
      [] r = "photon_model" -> "photon.safetensors"
      [] r = "loadandapplyiclightunet_723" -> "iclight_sd15_fbc.safetensors"
      [] OTHER -> "flux1-dev-fp8.safetensors"

\* the objects the two generation singletons keep alive, as <<weight file, object>>
LiveModels ==
    (IF COMFYUI_UPSCALE_MODELS = None THEN {}
     ELSE {<<UpscaleModelFile(r), COMFYUI_UPSCALE_MODELS[r]>> :
              r \in {q \in DOMAIN COMFYUI_UPSCALE_MODELS : COMFYUI_UPSCALE_MODELS[q] # 0}})
    \cup
    (IF COMFY_EMOTION_LIGHTING_MODELS = None THEN {}
     ELSE {<<EmotionModelFile(r), COMFY_EMOTION_LIGHTING_MODELS[r]>> :
              r \in {q \in DOMAIN COMFY_EMOTION_LIGHTING_MODELS : COMFY_EMOTION_LIGHTING_MODELS[q] # 0}})

\* C6: there are never two live copies of the same model in the upscale and
\* emotion/lighting singletons (in particular of the Flux checkpoint).
C6_SingleLiveCopy ==
    \A a \in LiveModels, b \in LiveModels : a[1] = b[1] => a[2] = b[2]

(***************************************************************************)
(* gather_sheet_images called on work directories of any content           *)
(***************************************************************************)
Pulid(i) == <<IF i = 0 THEN "pulid_0" ELSE IF i = 1 THEN "pulid_1" ELSE "pulid_2", ".jpg">>

\* files other than the selected ones that a work directory may hold
ExtraFiles ==
    { Png("upscaled_multiview_0"), Png("input"), Png("emotions_0"), <<"SCAN", ".PNG">>,
      <<"photo", ".jpeg">>, <<"image_info", ".json">>, <<"original", ".txt">>,
      <<"multiview", "">>, Pulid(0), Pulid(1) }

ExtraContent(f) == IF f = <<"multiview", "">> THEN "dir" ELSE "old"

\* the selected files that a directory handed to gather may lack
MissingChoices == { {}, {Png("face_upscaled")}, {Png("upscaled_emotions_3")} }

PulidPathChoices ==
    { NonePaths, PathList(<<>>), PathList(<<Pulid(0)>>), PathList(<<Pulid(0), Pulid(1)>>),
      PathList(<<Pulid(1), Pulid(1)>>) }

GatherInit ==
    /\ InitSingletons
    /\ InitInferIdle
    /\ InitUtilIdle
    /\ pc = "idle" /\ bpc = "idle" /\ pulidflux_images = 0 /\ stages = <<>>
    /\ timing_log = <<>> /\ image_info_json = <<>> /\ result = None /\ trainer = "idle"
    /\ crop = NoCrop
    /\ sheet_images = <<>>
    /\ \E missing \in MissingChoices, extra \in SUBSET ExtraFiles :
         /\ Cardinality(extra) <= MaxExtra
         /\ work_dir = [f \in (Range(selected_images_base) \ missing) \cup extra |->
                          IF f \in extra THEN ExtraContent(f) ELSE "generated"]
    /\ \E old \in SUBSET {Png("input"), <<"SCAN", ".PNG">>} :
         trash = [f \in old |-> "trashed"]
    /\ pulid_image_paths \in PulidPathChoices

\* one call of gather_sheet_images(work_dir, pulid_image_paths)
GatherCall ==
    /\ Len(stages) < MaxGatherCalls
    /\ LET r == gather_sheet_images(work_dir, trash, pulid_image_paths)
       IN /\ work_dir' = r.work_dir
          /\ trash' = r.trash
          /\ sheet_images' = r.sheet_image_paths
    /\ stages' = Append(stages, "gather_sheet_images")
    /\ UNCHANGED <<singletonVars, pc, bpc, pulidflux_images, timing_log, image_info_json,
                   result, trainer, pulid_image_paths>>
    /\ UNCHANGED <<crop, inferVars, utilVars>>

\* a later stage run leaves new intermediate images in the directory
RegenerateIntermediates ==
    /\ stages # <<>> /\ Len(stages) < MaxGatherCalls
    /\ \E f \in {Png("input"), Png("emotions_0")} :
         /\ f \notin DOMAIN work_dir
         /\ work_dir' = WriteFiles(work_dir, {f}, "generated")
    /\ UNCHANGED <<singletonVars, sheetVars, trash, pulid_image_paths, sheet_images>>
    /\ UNCHANGED <<inferVars, utilVars>>

GatherNext == GatherCall \/ RegenerateIntermediates

SpecGather == GatherInit /\ [][GatherNext]_vars

IsImageFile(dir, f) == ~IsDir(dir, f) /\ Lower(f[2]) \in image_extensions

\* C8: on a work directory holding the full selected set plus other image
\* files, gather_sheet_images returns exactly the selected files in list
\* order, moves exactly the other image files into trash/, and leaves in the
\* directory only selected images and non-image entries, all untouched.
C8_GatherSelectsAndTrashes ==
    [][ (Len(stages') > Len(stages) /\ Range(selected_images_base) \subseteq DOMAIN work_dir)
        => LET sel == Range(SelectedImages(pulid_image_paths))
               others == {f \in DOMAIN work_dir : IsImageFile(work_dir, f) /\ f \notin sel}
           IN /\ SelectSeq(sheet_images', LAMBDA f : f \in Range(selected_images_base))
                   = selected_images_base
              /\ \A i, j \in 1..Len(sheet_images') : i # j => sheet_images'[i] # sheet_images'[j]
              /\ Range(sheet_images') = sel \cap DOMAIN work_dir
              /\ \A i \in 1..Len(sheet_images') : i <= 13 => sheet_images'[i] = selected_images_base[i]
              /\ DOMAIN trash' = (DOMAIN trash) \cup others
              /\ \A f \in others : trash'[f] = work_dir[f]
              /\ DOMAIN work_dir' = ((DOMAIN work_dir) \ others) \cup {TrashName}
              /\ \A f \in (DOMAIN work_dir) \ others : work_dir'[f] = work_dir[f]
              /\ \A f \in DOMAIN work_dir' : IsImageFile(work_dir', f) => f \in sel
      ]_vars

\* gather has run on a full directory with two other image files, which are now in trash/
C8_Witness ==
    /\ stages = <<"gather_sheet_images">>
    /\ Len(sheet_images) = 13
    /\ {Png("upscaled_multiview_0"), <<"SCAN", ".PNG">>} \subseteq DOMAIN trash
    /\ <<"image_info", ".json">> \in DOMAIN work_dir

(***************************************************************************)
(* generate_char_sheet, stage by stage, as called by build_character       *)
(***************************************************************************)
\* the keys create_image_info_json writes (generate_sheet.py lines 101-147)
image_info ==
    << Png("upscaled_multiview_1"), Png("upscaled_multiview_2"), Png("upscaled_multiview_3"),
       Png("upscaled_multiview_4"), Png("upscaled_multiview_5"), Png("face_upscaled"),
       Png("original"), Png("upscaled_lighting_0"), Png("upscaled_lighting_1"),
       Png("upscaled_lighting_2"), Png("upscaled_lighting_3"), Png("upscaled_emotions_1"),
       Png("upscaled_emotions_3"), Png("upscaled_emotions_2"), Png("upscaled_emotions_4") >>

\* files written by create_multiview_images before the upscale workflow runs
MultiviewEarlyFiles(cropped) ==
    { Png("cleaned_reference"), Png("multiview_grid"), Png("face_upscaled") }
    \cup (IF cropped THEN {Png("face_reference")} ELSE {})

\* ... and from the upscaled grid (multiview.py lines 256-269)
MultiviewUpscaledFiles ==
    { Png("upscaled_multiview_grid"), Png("upscaled_multiview_0"), Png("upscaled_multiview_1"),
      Png("upscaled_multiview_2"), Png("upscaled_multiview_3"), Png("upscaled_multiview_4"),
      Png("upscaled_multiview_5") }

\* files written by apply_emotion_lighting and create_multi_view_grid
EmotionRawFiles ==
    { Png("lighting_0"), Png("lighting_1"), Png("lighting_2"), Png("lighting_3"),
      Png("emotions_0"), Png("emotions_1"), Png("emotions_2"), Png("emotions_3"),
      Png("emotions_grid") }

\* ... and from the upscaled grid (training/emotion_lighting.py lines 30-40)
EmotionUpscaledFiles ==
    { Png("upscaled_emotions_grid"), Png("upscaled_lighting_0"), Png("upscaled_lighting_1"),
      Png("upscaled_lighting_2"), Png("upscaled_lighting_3"), Png("upscaled_emotions_1"),
      Png("upscaled_emotions_3") }

\* control flow of generate_char_sheet (lines 170-222): the stage after `stage'
NextStageUngated(stage, n) ==
    CASE stage = "preprocessing" -> "multiview"
      [] stage = "multiview" -> "emotion_lighting"
      [] stage = "emotion_lighting" -> "augmentation"
      [] stage = "augmentation" -> "gather_sheet_images"
      [] stage = "gather_sheet_images" -> "image_info"
      [] stage = "image_info" -> "cleanup"
      [] OTHER -> "returned"

NextStage(stage, n) ==
    CASE stage = "preprocessing" -> "multiview"
      [] stage = "multiview" -> "emotion_lighting"
      [] stage = "emotion_lighting" -> IF n > 0 THEN "augmentation" ELSE "gather_sheet_images"
      [] stage = "augmentation" -> "gather_sheet_images"
      [] stage = "gather_sheet_images" -> "image_info"
      [] stage = "image_info" -> "cleanup"
      [] OTHER -> "returned"

\* cleanup_generation_models (lines 26-44): both singletons are cleaned (the
\* two cleanup_models() bodies only assign references, so the try/except of
\* lines 33-37 has nothing to catch), then gc.collect() and
\* torch.cuda.empty_cache() run outside that try and may raise (failGc)
cleanup_generation_models_emotion_only(emo, up, failGc) ==
    [emotion |-> cleanup_models(emo), upscale |-> up, raised |-> failGc]

cleanup_generation_models(emo, up, failGc) ==
    [emotion |-> cleanup_models(emo), upscale |-> cleanup_models(up), raised |-> failGc]

\* lines 218-222: what generate_char_sheet hands back after the cleanup call
generate_char_sheet_return_propagating(sheet, cleanupRaised) ==
    IF cleanupRaised THEN [status |-> "raised", value |-> <<>>]
    ELSE [status |-> "returned", value |-> sheet]

generate_char_sheet_return(sheet, cleanupRaised) == [status |-> "returned", value |-> sheet]

Raised == [status |-> "raised", value |-> <<>>]

\* the timing context manager (lines 15-23): when its block ends, normally or
\* by an exception, the finally clause opens the log in append mode and
\* writes one line that starts with the component name
timing_truncating(log, component_name) == <<component_name>>

timing(log, component_name) == Append(log, component_name)

\* the contexts that are open around a stage of generate_char_sheet, inner
\* to outer: an exception closes each of them in turn
RECURSIVE timing_unwind(_, _)
timing_unwind(log, names) ==
    IF names = <<>> THEN log ELSE timing_unwind(timing(log, Head(names)), Tail(names))

\* build_character (lines 280-293) clears the timing log an earlier run left
\* and calls build_charsheet, which calls generate_char_sheet on the sheet
\* directory
StartBuild ==
    /\ bpc = "idle" /\ pc = "idle"
    /\ bpc' = "charsheet"
    /\ pc' = "preprocessing"
    /\ timing_log' = <<>>
    /\ UNCHANGED <<singletonVars, pulidflux_images, stages, image_info_json, result, trainer,
                   dirVars>>
    /\ UNCHANGED <<crop, inferVars, utilVars>>

\* a stage of generate_char_sheet raised: every enclosing timing context
\* appends its line and the exception leaves build_character
StageRaises(stage, line) ==
    /\ stages' = Append(stages, stage)
    /\ timing_log' = timing_unwind(timing_log,
                           <<line, "Total process", "Character sheet", "Total workflow">>)
    /\ pc' = "raised"
    /\ bpc' = "raised"
    /\ result' = Raised

StageDone(stage, line) ==
    /\ stages' = Append(stages, stage)
    /\ timing_log' = timing(timing_log, line)
    /\ pc' = NextStage(stage, pulidflux_images)
    /\ UNCHANGED <<bpc, result>>

Preprocessing ==
    /\ pc = "preprocessing"
    /\ \E ok \in BOOLEAN :
         IF ok
         THEN /\ work_dir' = WriteFiles(WriteFiles(work_dir, {Png("original")}, "reference"),
                                        {Png("input")}, "generated")
              /\ StageDone("preprocessing", "preprocessing")
         ELSE /\ UNCHANGED work_dir
              /\ StageRaises("preprocessing", "preprocessing")
    /\ UNCHANGED <<singletonVars, pulidflux_images, image_info_json, trainer, trash,
                   pulid_image_paths, sheet_images>>
    /\ UNCHANGED <<crop, inferVars, utilVars>>

\* create_multiview_images: the multi-view renders, crop_face and the face
\* anchor, then apply_upscale_grid_image, which initializes the upscale
\* singleton.  raise_before_upscale is a failure ahead of the detector's
\* answer, raise_in_upscale one in upscale_image or the upscale workflow
Multiview ==
    /\ pc = "multiview"
    /\ loadSeq < MaxLoads
    /\ \E outcome \in {"ok", "raise_before_upscale", "raise_in_upscale"},
          dets \in 0..MaxFaces, cropFailed \in BOOLEAN, failAt \in 0..Len(UpscaleRoles) :
         LET c == crop_face(dets, cropFailed)
             rendered == WriteFiles(WriteFiles(work_dir, {<<"multiview", "">>}, "dir"),
                                    {Png("cleaned_reference"), Png("multiview_grid")}, "generated")
             early == WriteFiles(WriteFiles(WriteFiles(work_dir, {<<"multiview", "">>}, "dir"),
                                            MultiviewEarlyFiles(c.path # FalseSentinel),
                                            "generated"),
                                 {Png("face_upscaled")}, UpscaleOf(face_reference_path(c)))
             r == initialize_upscale_models(COMFYUI_UPSCALE_MODELS, loadSeq + 1, failAt)
         IN IF outcome = "raise_before_upscale"
            THEN /\ UNCHANGED <<work_dir, singletonVars, crop>>
                 /\ StageRaises("multiview", "Multi-view")
            ELSE IF c.raised
            THEN /\ crop' = c
                 /\ work_dir' = rendered
                 /\ UNCHANGED singletonVars
                 /\ StageRaises("multiview", "Multi-view")
            ELSE /\ crop' = c
                 /\ COMFYUI_UPSCALE_MODELS' = r.models
                 /\ loadSeq' = loadSeq + r.loads
                 /\ loadCalls' = [loadCalls EXCEPT !["upscale"] = @ + r.loads]
                 /\ lastCall' = [op |-> "initialize", wf |-> "upscale", raised |-> r.raised]
                 /\ UNCHANGED <<COMFY_EMOTION_LIGHTING_MODELS, COMFY_MODELS>>
                 /\ IF r.raised \/ outcome = "raise_in_upscale"
                    THEN /\ work_dir' = early
                         /\ StageRaises("multiview", "Multi-view")
                    ELSE /\ work_dir' = WriteFiles(early, MultiviewUpscaledFiles, "generated")
                         /\ StageDone("multiview", "Multi-view")
    /\ UNCHANGED <<pulidflux_images, image_info_json, trainer, trash, pulid_image_paths,
                   sheet_images>>
    /\ UNCHANGED <<inferVars, utilVars>>

\* generate_emotion_lighting: apply_emotion_lighting initializes the
\* emotion/lighting singleton, then the grid is upscaled and split
EmotionLighting ==
    /\ pc = "emotion_lighting"
    /\ loadSeq + 1 < MaxLoads
    /\ \E outcome \in {"ok", "raise_in_workflow", "raise_in_upscale"},
          upFail \in 0..Len(UpscaleRoles), emoFail \in 0..3 :
         LET r == initialize_emotion_lighting_models(COMFY_EMOTION_LIGHTING_MODELS,
                      COMFYUI_UPSCALE_MODELS, loadSeq + 1, upFail, emoFail)
         IN /\ COMFY_EMOTION_LIGHTING_MODELS' = r.models
            /\ COMFYUI_UPSCALE_MODELS' = r.upscale
            /\ loadSeq' = loadSeq + r.loads + r.upLoads
            /\ loadCalls' = [loadCalls EXCEPT !["emotion"] = @ + r.loads,
                                              !["upscale"] = @ + r.upLoads]
            /\ lastCall' = [op |-> "initialize", wf |-> "emotion", raised |-> r.raised]
            /\ UNCHANGED COMFY_MODELS
            /\ IF r.raised \/ outcome = "raise_in_workflow"
               THEN /\ UNCHANGED work_dir
                    /\ StageRaises("emotion_lighting", "Emotion and lighting")
               ELSE IF outcome = "raise_in_upscale"
               THEN /\ work_dir' = WriteFiles(work_dir, EmotionRawFiles, "generated")
                    /\ StageRaises("emotion_lighting", "Emotion and lighting")
               ELSE /\ work_dir' = WriteFiles(work_dir, EmotionRawFiles \cup EmotionUpscaledFiles,
                                              "generated")
                    /\ StageDone("emotion_lighting", "Emotion and lighting")
    /\ UNCHANGED <<pulidflux_images, image_info_json, trainer, trash, pulid_image_paths,
                   sheet_images>>
    /\ UNCHANGED <<crop, inferVars, utilVars>>

\* what happens to one prompt in generate_pulidflux_images (lines 178-247):
\*   saved             the API returned an image and the download answered 200
\*   download_not_200  the API returned an image, the download answered another
\*                     status: download_image writes nothing and raises nothing
\*   download_raised   the download raised before the file was opened
\*   read_raised       the download answered 200 and reading the body raised
\*                     after the file was opened for writing
\*   no_images         the API result holds no image
\*   api_error         the API call raised (non-retryable, or retries exhausted)
PromptOutcomes ==
    {"saved", "download_not_200", "download_raised", "read_raised", "no_images", "api_error"}

\* line 223 is reached whenever download_image returned
ListedOutcomes == {"saved", "download_not_200"}

\* generate_pulidflux_images (lines 169-255): outcomes[i] is the outcome of
\* prompt i-1, whose file is pulid_{i-1}.jpg; a failure to read the face
\* image (openOk = FALSE) is caught at line 251 and gives an empty list
generate_pulidflux_images(outcomes, dir, openOk) ==
    IF ~openOk THEN [paths |-> <<>>, work_dir |-> dir]
    ELSE LET idx == SelectSeq([i \in 1..Len(outcomes) |-> i],
                              LAMBDA i : outcomes[i] \in ListedOutcomes)
             saved == {Pulid(i - 1) : i \in {j \in 1..Len(outcomes) : outcomes[j] = "saved"}}
             cut == {Pulid(i - 1) : i \in {j \in 1..Len(outcomes) : outcomes[j] = "read_raised"}}
         IN [paths |-> [j \in 1..Len(idx) |-> Pulid(idx[j] - 1)],
             work_dir |-> WriteFiles(WriteFiles(dir, saved, "generated"), cut, "truncated")]

\* generate_synthetic_images (lines 258-327): fal_key is whether FAL_KEY is
\* set, promptsRaised whether generate_pulidflux_prompts raised (no
\* GOOGLE_API_KEY), outcomes has one entry per prompt it returned
generate_synthetic_images_unguarded(fal_key, promptsRaised, outcomes, dir, openOk) ==
    IF ~fal_key THEN [raised |-> FALSE, paths |-> <<>>, work_dir |-> dir]
    ELSE IF promptsRaised THEN [raised |-> TRUE, paths |-> <<>>, work_dir |-> dir]
    ELSE LET r == generate_pulidflux_images(outcomes, dir, openOk)
         IN [raised |-> FALSE, paths |-> r.paths, work_dir |-> r.work_dir]

generate_synthetic_images(fal_key, promptsRaised, outcomes, dir, openOk) ==
    IF ~fal_key \/ promptsRaised \/ outcomes = <<>>
    THEN [raised |-> FALSE, paths |-> <<>>, work_dir |-> dir]
    ELSE LET r == generate_pulidflux_images(outcomes, dir, openOk)
         IN [raised |-> FALSE, paths |-> r.paths, work_dir |-> r.work_dir]

\* lines 201-205: the augmentation stage of generate_char_sheet
Augmentation ==
    /\ pc = "augmentation"
    /\ \E fal_key \in BOOLEAN, promptsRaised \in BOOLEAN, openOk \in BOOLEAN,
          m \in 0..pulidflux_images :
         \E outcomes \in [1..m -> PromptOutcomes] :
           LET r == generate_synthetic_images(fal_key, promptsRaised, outcomes, work_dir, openOk)
           IN IF r.raised
              THEN /\ UNCHANGED <<work_dir, pulid_image_paths>>
                   /\ StageRaises("augmentation", "Pulid-Flux")
              ELSE /\ pulid_image_paths' = PathList(r.paths)
                   /\ work_dir' = r.work_dir
                   /\ StageDone("augmentation", "Pulid-Flux")
    /\ UNCHANGED <<singletonVars, pulidflux_images, image_info_json, trainer, trash, sheet_images>>
    /\ UNCHANGED <<crop, inferVars, utilVars>>

GatherSheetImages ==
    /\ pc = "gather_sheet_images"
    /\ LET r == gather_sheet_images(work_dir, trash, pulid_image_paths)
       IN /\ work_dir' = r.work_dir
          /\ trash' = r.trash
          /\ sheet_images' = r.sheet_image_paths
    /\ stages' = Append(stages, "gather_sheet_images")
    /\ pc' = NextStage("gather_sheet_images", pulidflux_images)
    /\ UNCHANGED <<singletonVars, bpc, pulidflux_images, timing_log, image_info_json, result,
                   trainer, pulid_image_paths>>
    /\ UNCHANGED <<crop, inferVars, utilVars>>

\* create_image_info_json, after which the "Total process" context ends
CreateImageInfo ==
    /\ pc = "image_info"
    /\ image_info_json' = image_info
    /\ work_dir' = WriteFiles(work_dir, {<<"image_info", ".json">>}, "generated")
    /\ stages' = Append(stages, "image_info")
    /\ timing_log' = timing_unwind(timing_log, <<"Creating image info", "Total process">>)
    /\ pc' = NextStage("image_info", pulidflux_images)
    /\ UNCHANGED <<singletonVars, bpc, pulidflux_images, result, trainer, trash,
                   pulid_image_paths, sheet_images>>
    /\ UNCHANGED <<crop, inferVars, utilVars>>

\* lines 218-222, and the return into build_charsheet
CleanupAndReturn ==
    /\ pc = "cleanup"
    /\ \E failGc \in BOOLEAN :
         LET r == cleanup_generation_models(COMFY_EMOTION_LIGHTING_MODELS,
                                            COMFYUI_UPSCALE_MODELS, failGc)
             res == generate_char_sheet_return(sheet_images, r.raised)
         IN /\ COMFY_EMOTION_LIGHTING_MODELS' = r.emotion
            /\ COMFYUI_UPSCALE_MODELS' = r.upscale
            /\ lastCall' = [op |-> "cleanup_generation_models", wf |-> "generate_char_sheet",
                            raised |-> r.raised]
            /\ result' = res
            /\ stages' = Append(stages, "cleanup")
            /\ IF res.status = "returned"
               THEN /\ pc' = NextStage("cleanup", pulidflux_images)
                    /\ bpc' = "captioning"
                    /\ timing_log' = timing(timing_log, "Character sheet")
               ELSE /\ pc' = "raised"
                    /\ bpc' = "raised"
                    /\ timing_log' = timing_unwind(timing_log, <<"Character sheet", "Total workflow">>)
    /\ UNCHANGED <<COMFY_MODELS, loadSeq, loadCalls, pulidflux_images, image_info_json, trainer,
                   dirVars>>
    /\ UNCHANGED <<crop, inferVars, utilVars>>

(***************************************************************************)
(* build_character after the character sheet (train_character.py)          *)
(***************************************************************************)
TxtOf(f) == <<f[1], ".txt">>

\* the glob patterns of ensure_images_1024x1024 / ensure_captions_for_all_images
dataset_image_extensions ==
    {".jpg", ".jpeg", ".png", ".bmp", ".tiff", ".webp", ".JPG", ".PNG"}

DatasetImages(dir) == {f \in DOMAIN dir : f[2] \in dataset_image_extensions /\ ~IsDir(dir, f)}

\* build_charsheet lines 113-164: the external captioner runs on the sheet
\* directory; its failure is printed and swallowed
Captioning ==
    /\ bpc = "captioning"
    /\ \E ok \in BOOLEAN :
         work_dir' = IF ok THEN WriteFiles(work_dir, {TxtOf(f) : f \in Range(sheet_images)}, "caption")
                     ELSE work_dir
    /\ timing_log' = timing(timing_log, "Image captioning")
    /\ bpc' = "clear_cuda"
    /\ UNCHANGED <<singletonVars, pc, pulidflux_images, stages, image_info_json, result, trainer,
                   trash, pulid_image_paths, sheet_images>>
    /\ UNCHANGED <<crop, inferVars, utilVars>>

\* clear_cuda_memory (lines 242-256) inside the "memory cleanup" context:
\* nvidia-smi, cleanup_generation_models, empty_cache, nvidia-smi; a failing
\* subprocess or a raising cleanup leaves build_character
ClearCudaMemory ==
    /\ bpc = "clear_cuda"
    /\ \E outcome \in {"ok", "nvidia_smi_failed", "cleanup_raised", "nvidia_smi_failed_after"} :
         LET r == cleanup_generation_models(COMFY_EMOTION_LIGHTING_MODELS,
                                            COMFYUI_UPSCALE_MODELS, outcome = "cleanup_raised")
         IN /\ IF outcome = "nvidia_smi_failed"
               THEN UNCHANGED <<COMFY_EMOTION_LIGHTING_MODELS, COMFYUI_UPSCALE_MODELS, lastCall>>
               ELSE /\ COMFY_EMOTION_LIGHTING_MODELS' = r.emotion
                    /\ COMFYUI_UPSCALE_MODELS' = r.upscale
                    /\ lastCall' = [op |-> "cleanup_generation_models", wf |-> "clear_cuda_memory",
                                    raised |-> r.raised]
            /\ IF outcome = "ok"
               THEN /\ bpc' = "preprocess"
                    /\ timing_log' = timing(timing_log, "memory cleanup")
               ELSE /\ bpc' = "raised"
                    /\ timing_log' = timing_unwind(timing_log, <<"memory cleanup", "Total workflow">>)
    /\ UNCHANGED <<COMFY_MODELS, loadSeq, loadCalls, pc, pulidflux_images, stages,
                   image_info_json, result, trainer, dirVars>>
    /\ UNCHANGED <<crop, inferVars, utilVars>>

\* preprocess_dataset_before_training: images that are not 1024x1024 are
\* rewritten in place, images without a caption file get one; errors on a
\* single image are printed and skipped
PreprocessDataset ==
    /\ bpc = "preprocess"
    /\ \E resized \in {{}, {Png("original")}, DatasetImages(work_dir)}, captioned \in BOOLEAN :
         LET sized == WriteFiles(work_dir, resized \cap DatasetImages(work_dir), "resized")
             lacking == {f \in DatasetImages(sized) : ~Exists(sized, TxtOf(f))}
         IN work_dir' = IF captioned THEN WriteFiles(sized, {TxtOf(f) : f \in lacking}, "caption")
                        ELSE sized
    /\ timing_log' = timing(timing_log, "Dataset preprocessing")
    /\ bpc' = "train"
    /\ UNCHANGED <<singletonVars, pc, pulidflux_images, stages, image_info_json, result, trainer,
                   trash, pulid_image_paths, sheet_images>>
    /\ UNCHANGED <<crop, inferVars, utilVars>>

\* train_lora lines 178-230: config.yaml is written and the trainer started
LaunchTrainer ==
    /\ bpc = "train"
    /\ trainer = "idle"
    /\ trainer' = "running"
    /\ bpc' = "training"
    /\ UNCHANGED <<singletonVars, pc, pulidflux_images, stages, timing_log, image_info_json,
                   result, dirVars>>
    /\ UNCHANGED <<crop, inferVars, utilVars>>

\* train_lora lines 219-239: run_subprocess raises CalledProcessError on a
\* non-zero exit (helpers.py 27-28); the except clause of line 233 prints it
\* and train_lora returns config.work_dir either way
train_lora(code) == [status |-> "returned", value |-> "work_dir"]

\* the trainer exits, train_lora ends, and with it build_character
TrainerExits ==
    /\ bpc = "training"
    /\ \E code \in {"exited_zero", "exited_nonzero"} :
         /\ trainer' = code
         /\ bpc' = IF train_lora(code).status = "returned" THEN "done" ELSE "raised"
    /\ timing_log' = timing_unwind(timing_log, <<"LoRA training", "Total workflow">>)
    /\ UNCHANGED <<singletonVars, pc, pulidflux_images, stages, image_info_json, result, dirVars>>
    /\ UNCHANGED <<crop, inferVars, utilVars>>

\* files left in the sheet directory by an earlier run
LeftoverFiles == { Png("upscaled_emotions_2"), Png("original"), <<"notes", ".txt">> }

Init ==
    /\ InitSingletons
    /\ InitInferIdle
    /\ InitUtilIdle
    /\ pc = "idle" /\ bpc = "idle"
    /\ pulidflux_images \in 0..MaxPulid
    /\ stages = <<>>
    /\ timing_log \in {<<>>, <<"LoRA training", "Total workflow">>}
    /\ image_info_json = <<>> /\ result = None /\ trainer = "idle"
    /\ crop = NoCrop
    /\ pulid_image_paths = NonePaths /\ sheet_images = <<>>
    /\ \E left \in SUBSET LeftoverFiles, trashed \in BOOLEAN :
         /\ work_dir = [f \in left \cup (IF trashed THEN {TrashName} ELSE {}) |->
                           IF f = TrashName THEN "dir" ELSE "old"]
         /\ trash = [f \in (IF trashed THEN {Png("input")} ELSE {}) |-> "trashed"]

Next ==
    \/ StartBuild
    \/ Preprocessing
    \/ Multiview
    \/ EmotionLighting
    \/ Augmentation
    \/ GatherSheetImages
    \/ CreateImageInfo
    \/ CleanupAndReturn
    \/ Captioning
    \/ ClearCudaMemory
    \/ PreprocessDataset
    \/ LaunchTrainer
    \/ TrainerExits

Spec == Init /\ [][Next]_vars

(***************************************************************************)
(* Properties of generate_char_sheet and build_character                   *)
(***************************************************************************)
StageOrder(n) ==
    <<"preprocessing", "multiview", "emotion_lighting">>
    \o (IF n > 0 THEN <<"augmentation">> ELSE <<>>)
    \o <<"gather_sheet_images", "image_info", "cleanup">>

IsPrefix(a, b) == Len(a) <= Len(b) /\ \A i \in 1..Len(a) : a[i] = b[i]

\* C1: the stages of generate_char_sheet run one at a time in the order
\* preprocessing, multiview, emotion/lighting, augmentation, gather, image
\* info, cleanup: the stages run so far are a prefix of that order, the stage
\* about to start is the next one of it, and augmentation is part of the
\* order if and only if pulidflux_images > 0.
C1_StageOrder ==
    LET order == StageOrder(pulidflux_images)
    IN /\ IsPrefix(stages, order)
       /\ (pc \in Range(order) \cup {"augmentation"}) =>
              (Len(stages) < Len(order) /\ order[Len(stages) + 1] = pc)
       /\ pc = "returned" => stages = order

\* a run with augmentation requested went through all seven stages
C1_Witness ==
    /\ pc = "returned"
    /\ pulidflux_images > 0
    /\ Len(stages) = 7

\* C2: whenever generate_char_sheet has terminated, by returning or by an
\* error raised in a stage, the emotion/lighting and the upscale singleton
\* are unset.
C2_CleanupOnEveryExit ==
    pc \in {"returned", "raised"} =>
        (COMFY_EMOTION_LIGHTING_MODELS = None /\ COMFYUI_UPSCALE_MODELS = None)

\* C3: when the model cleanup at the end of generate_char_sheet raised, the
\* call still returned, and returned the list gather_sheet_images produced.
C3_CleanupFailureSwallowed ==
    (lastCall = [op |-> "cleanup_generation_models", wf |-> "generate_char_sheet",
                 raised |-> TRUE])
        => (pc = "returned" /\ result = [status |-> "returned", value |-> sheet_images])

\* the cleanup raised after a run that gathered the thirteen sheet images
C3_Witness ==
    /\ lastCall = [op |-> "cleanup_generation_models", wf |-> "generate_char_sheet",
                   raised |-> TRUE]
    /\ result.status = "returned"
    /\ Len(result.value) = 13

\* C7: while the external trainer started by train_lora runs, every
\* generation workflow singleton is unset.
C7_TrainerStartsAfterCleanup ==
    trainer = "running" =>
        (COMFY_EMOTION_LIGHTING_MODELS = None /\ COMFYUI_UPSCALE_MODELS = None)

\* the trainer runs in a process that had loaded both generation singletons
C7_Witness ==
    /\ trainer = "running"
    /\ loadCalls["upscale"] >= 1
    /\ loadCalls["emotion"] >= 1

\* C9: the training config is never generated while a file named by
\* image_info.json or by the selected sheet images is missing from disk.
C9_NoTrainingWithMissingFiles ==
    trainer # "idle" =>
        \A f \in Range(image_info_json) \cup Range(sheet_images) : Exists(work_dir, f)

\* C10: with pulidflux_images = 0 the written image_info.json has exactly the
\* 13 keys of the sheet allow-list and no other key.
C10_ImageInfoHasThirteenKeys ==
    (image_info_json # <<>> /\ pulidflux_images = 0) =>
        (Len(image_info_json) = 13 /\ Range(image_info_json) = Range(selected_images_base))

\* the line a stage of generate_char_sheet writes when its timing context
\* ends; gather_sheet_images and the cleanup run outside any context of their own
StageLine(stage) ==
    CASE stage = "preprocessing" -> <<"preprocessing">>
      [] stage = "multiview" -> <<"Multi-view">>
      [] stage = "emotion_lighting" -> <<"Emotion and lighting">>
      [] stage = "augmentation" -> <<"Pulid-Flux">>
      [] stage = "image_info" -> <<"Creating image info">>
      [] OTHER -> <<>>

RECURSIVE StageLines(_)
StageLines(ss) == IF ss = <<>> THEN <<>> ELSE StageLine(Head(ss)) \o StageLines(Tail(ss))

IsStageLine(l) ==
    l \in {"preprocessing", "Multi-view", "Emotion and lighting", "Pulid-Flux",
           "Creating image info"}

C12_AugmentationNeverRaises ==
    (stages # <<>> /\ stages[Len(stages)] = "augmentation") =>
        /\ pc = "gather_sheet_images"
        /\ ~pulid_image_paths.none
        /\ result # Raised

\* two images were requested, none was produced, and the run goes on
C12_Witness ==
    /\ pc = "gather_sheet_images"
    /\ pulidflux_images = 2
    /\ pulid_image_paths = PathList(<<>>)
    /\ stages[Len(stages)] = "augmentation"

\* C13: every path generate_synthetic_images returned names a pulid_{i}.jpg
\* file this stage saved to the sheet directory.
C13_ReturnedPathsExist ==
    (pc = "gather_sheet_images" /\ ~pulid_image_paths.none) =>
        \A f \in Range(pulid_image_paths.list) :
            Exists(work_dir, f) /\ work_dir[f] = "generated"

(***************************************************************************)
(* Properties of LoRAImageGen                                              *)
(***************************************************************************)
\* C14: when char/char.safetensors (or one of its directories) is absent,
\* generate() raises from find_character_lora as its first step: the step
\* changes neither the instance nor the face-enhance singleton nor the output
\* directory, and the invocation makes no further step: no prepare, no
\* sampling, no file written.
C14_NoGenerationWithoutLora ==
    /\ []((events # <<>> /\ lora # "present") =>
            /\ ipc = "raised"
            /\ events = <<"find_character_lora">>
            /\ images = <<>> /\ written = {} /\ generated_files = <<>>)
    /\ [][(events = <<>> /\ events' # <<>> /\ lora' # "present") =>
            UNCHANGED <<generator, COMFY_MODELS, loadSeq, output_dir>>]_vars

\* generate() on a prepared instance whose work directory has char/ but no weight file
C14_Witness ==
    /\ ipc = "raised"
    /\ lora = "no_file"
    /\ generator.is_prepared
    /\ events = <<"find_character_lora">>

\* C15: in an invocation sampling is preceded by load_lora_weights, and
\* check_safety runs after save_images_to_files (and after the face
\* enhancement when it is on), when every file of the list it is given is on
\* disk, one per requested image.
C15_LoraBeforeSamplingSafetyAfterSave ==
    LET Before(a, b) == \A i \in 1..Len(events) :
                            events[i] = b => \E j \in 1..(i - 1) : events[j] = a
        Done(a) == \E j \in 1..Len(events) : events[j] = a
    IN /\ Before("load_lora_weights", "sample")
       /\ ipc = "sample" => Done("load_lora_weights")
       /\ Before("save_images_to_files", "check_safety")
       /\ FaceEnhanceOn => Before("face_enhance", "check_safety")
       /\ ipc = "check_safety" =>
            /\ Done("save_images_to_files")
            /\ Len(generated_files) = inv.batch_size
            /\ Range(generated_files) \subseteq DOMAIN output_dir

\* an invocation with face enhancement and safety check ran all its steps
C15_Witness ==
    /\ ipc = "done"
    /\ events = <<"find_character_lora", "prepare", "load_lora_weights", "sample",
                  "save_images_to_files", "face_enhance", "check_safety">>

\* C16: on one instance the diffusion pipeline and the safety classifier are
\* each loaded at most once.
C16_LoadedAtMostOnce ==
    /\ generator.pipe <= 1
    /\ generator.safety_checker.model <= 1

\* C17: check_safety returns one flag per file of its list, in list order;
\* the list and the set of files in the directory stay as they were; each
\* flagged file is overwritten with a placeholder of the size the file had,
\* and every other file keeps its content.
C17_CheckSafetyReplacesExactlyFlagged ==
    [][ (ipc = "check_safety" /\ ipc' # "check_safety") =>
          LET Flagged(f) == \E i \in 1..Len(generated_files) :
                                generated_files[i] = f /\ violations'[i]
          IN /\ Len(violations') = Len(generated_files)
             /\ \A i \in 1..Len(generated_files) :
                    violations'[i] => output_dir[generated_files[i]].kind = "nsfw"
             /\ generated_files' = generated_files
             /\ DOMAIN output_dir' = DOMAIN output_dir
             /\ \A f \in DOMAIN output_dir :
                    output_dir'[f] = IF Flagged(f)
                                     THEN [kind |-> "placeholder", dim |-> output_dir[f].dim]
                                     ELSE output_dir[f]
      ]_vars

\* of a batch of two 512-pixel images the second was flagged and replaced
C17_Witness ==
    /\ ipc = "done"
    /\ violations = <<FALSE, TRUE>>
    /\ output_dir[generated_files[1]].kind = "safe"
    /\ output_dir[generated_files[2]] = [kind |-> "placeholder", dim |-> 512]

\* C18: when an invocation with the safety check enabled has ended, every
\* image file it wrote was handed to the classifier, and every file the
\* classifier flagged holds the placeholder.
C18_EveryGeneratedFileChecked ==
    (ipc = "done" /\ inv.safety_check) =>
        /\ written \subseteq Range(generated_files)
        /\ Len(violations) = Len(generated_files)
        /\ \A i \in 1..Len(generated_files) :
               violations[i] => output_dir[generated_files[i]].kind = "placeholder"

\* C19: when the detector found no face, crop_face returned False and did
\* not raise; create_multiview_images then made the face anchor from the
\* cleaned reference image, and once the multiview stage is over the sheet
\* directory holds that face_upscaled.png and the six upscaled views.
C19_NoFaceFallsBack ==
    (crop.called /\ crop.dets = 0) =>
        /\ ~crop.raised
        /\ crop.path = FalseSentinel
        /\ pc # "raised" => Exists(work_dir, Png("face_upscaled"))
        /\ pc = "emotion_lighting" =>
             /\ work_dir[Png("face_upscaled")] = "upscaled cleaned_reference"
             /\ \A f \in MultiviewUpscaledFiles :
                    Exists(work_dir, f) /\ work_dir[f] = "generated"

\* no face was found, and the multiview stage completed on the fallback
C19_Witness ==
    /\ crop.called /\ crop.dets = 0
    /\ pc = "emotion_lighting"
    /\ work_dir[Png("face_upscaled")] = "upscaled cleaned_reference"
    /\ Png("face_reference") \notin DOMAIN work_dir
    /\ Png("upscaled_multiview_5") \in DOMAIN work_dir

\* C20: when the training subprocess exited with a non-zero code, train_lora
\* and build_character raised: build_character did not end as done.
C20_TrainerFailureIsFatal ==
    trainer = "exited_nonzero" => bpc = "raised"

(***************************************************************************)
(* Utility functions, applied to inputs drawn from bounded sets            *)
(***************************************************************************)
utilIdle == UNCHANGED <<singletonVars, sheetVars, dirVars, inferVars, augVars>>

\* the placeholders in the order train_lora replaces them (lines 202-208)
Placeholders == <<"TRAINING_DIR", "DATASET_DIR", "TRAIN_DIM", "BATCH_SIZE", "STEPS",
                  "LEARNING_RATE", "RANK_DIM">>

\* scripts/character_lora.yaml as a sequence of words: placeholders and other text
TemplateWords == Range(Placeholders) \cup {"config:"}

Templates == UNION {[1..n -> TemplateWords] : n \in 1..MaxTemplate}

\* str.replace(old, new) on a text held as a sequence of words: every
\* occurrence of old becomes the words of new
RECURSIVE replace(_, _, _)
replace(text, old, new) ==
    IF text = <<>> THEN <<>>
    ELSE (IF Head(text) = old THEN new ELSE <<Head(text)>>) \o replace(Tail(text), old, new)

\* str() of a Python float m * 10^-4 with 1 <= m <= 9
str_float(m) == "0.000" \o ToString(m)

\* character names as --name and the worker's sanitizer (handler.py 182) admit them
CharacterNames == {"alice", "STEPS"}

\* --work_dir: not given, or a path of components
WorkDirs == {<<>>, <<"mnt", "RANK_DIM">>}

CharacterConfigs ==
    [name : CharacterNames, work_dir : WorkDirs, steps : {800}, batch_size : {1, 2},
     learning_rate : {8}, train_dim : {512, 1024}, rank_dim : {8}]

\* train_lora lines 178-181: the default work directory is APP_PATH/scratch/name
config_work_dir(config) ==
    IF config.work_dir = <<>> THEN <<"app", "scratch", config.name>> ELSE config.work_dir

\* train_lora lines 198-208: the value each placeholder is replaced by
placeholder_values(config) ==
    [ph \in Range(Placeholders) |->
        CASE ph = "TRAINING_DIR" -> config_work_dir(config)
          [] ph = "DATASET_DIR" -> Append(config_work_dir(config), "sheet")
          [] ph = "TRAIN_DIM" -> <<ToString(config.train_dim)>>
          [] ph = "BATCH_SIZE" -> <<ToString(config.batch_size)>>
          [] ph = "STEPS" -> <<ToString(config.steps)>>
          [] ph = "LEARNING_RATE" -> <<str_float(config.learning_rate)>>
          [] ph = "RANK_DIM" -> <<ToString(config.rank_dim)>>]

\* train_lora lines 202-208: the seven replace calls, one after the other
RECURSIVE replace_from(_, _, _)
replace_from(text, values, k) ==
    IF k > Len(Placeholders) THEN text
    ELSE replace_from(replace(text, Placeholders[k], values[Placeholders[k]]), values, k + 1)

\* the content train_lora writes to config.yaml
config_content(template, config) == replace_from(template, placeholder_values(config), 1)

\* the template with each of its placeholders replaced by its value
RECURSIVE substituted(_, _)
substituted(template, values) ==
    IF template = <<>> THEN <<>>
    ELSE (IF Head(template) \in DOMAIN values THEN values[Head(template)]
          ELSE <<Head(template)>>) \o substituted(Tail(template), values)

\* each behaviour applies one utility function to one input
UtilReady == call = NoCall

\* train_lora up to the write of config.yaml
WriteTrainingConfig ==
    /\ UtilReady
    /\ \E config \in CharacterConfigs, template \in Templates :
         call' = [fn |-> "train_lora", config |-> config, template |-> template,
                  result |-> config_content(template, config)]
    /\ UNCHANGED dataset
    /\ utilIdle

(***************************************************************************)
(* Image helpers (training/utilities.py).  An image is its width, its      *)
(* height and the operations that produced its pixels from the source.     *)
(***************************************************************************)
Max(a, b) == IF a >= b THEN a ELSE b

\* an image as opened from a file
SourceImage(width, height) == [width |-> width, height |-> height, history |-> <<>>]

SourceImages == {SourceImage(w, h) : w \in 1..MaxSide, h \in 1..MaxSide}

\* Image.new(size) followed by paste(image, (x_offset, y_offset))
Pasted(image, size, x_offset, y_offset) ==
    [width |-> size, height |-> size,
     history |-> Append(image.history, [op |-> "paste", x |-> x_offset, y |-> y_offset,
                                        w |-> image.width, h |-> image.height])]

\* image.resize((w, h))
Resized(image, w, h) ==
    [width |-> w, height |-> h,
     history |-> Append(image.history, [op |-> "resize", x |-> 0, y |-> 0, w |-> w, h |-> h])]

rectangle_to_square_always_pasting(image) ==
    LET size == Max(image.width, image.height)
    IN Pasted(image, size, (size - image.width) \div 2, (size - image.height) \div 2)

\* rectangle_to_square lines 315-335
rectangle_to_square(image) ==
    IF image.width = image.height THEN image
    ELSE LET size == Max(image.width, image.height)
         IN Pasted(image, size, (size - image.width) \div 2, (size - image.height) \div 2)

resize_if_large_strict(image, max_size) ==
    IF image.width < max_size THEN image
    ELSE Resized(image, max_size, max_size)

\* resize_if_large lines 426-440: only the width is compared with max_size
resize_if_large(image, max_size) ==
    IF image.width <= max_size THEN image
    ELSE Resized(image, max_size, max_size)

RectangleToSquare ==
    /\ UtilReady
    /\ \E image \in SourceImages :
         call' = [fn |-> "rectangle_to_square", image |-> image,
                  result |-> rectangle_to_square(image),
                  twice |-> rectangle_to_square(rectangle_to_square(image))]
    /\ UNCHANGED dataset
    /\ utilIdle

ResizeIfLarge ==
    /\ UtilReady
    /\ \E image \in SourceImages, max_size \in 1..MaxSide :
         call' = [fn |-> "resize_if_large", image |-> image, max_size |-> max_size,
                  result |-> resize_if_large(image, max_size)]
    /\ UNCHANGED dataset
    /\ utilIdle

(***************************************************************************)
(* Python floats: IEEE 754 binary64, round to nearest, ties to even.  A    *)
(* positive float is [m, e]: m the 53 bits of its significand, most        *)
(* significant first, e the exponent of the last bit; its value is         *)
(* m * 2^e.  The magnitudes here stay far from overflow and subnormals.    *)
(* Long numbers are held as limbs of 16 bits, most significant first.      *)
(***************************************************************************)
DoubleMantissaBits == 53

LimbBits == 16

LimbBase == 2 ^ LimbBits

Zeros(k) == [i \in 1..k |-> 0]

\* the bits of the limbs, most significant first
LimbsToBits(limbs) ==
    [i \in 1..(LimbBits * Len(limbs)) |->
        (limbs[((i - 1) \div LimbBits) + 1] \div (2 ^ (LimbBits - 1 - ((i - 1) % LimbBits)))) % 2]

RECURSIVE BitsValue(_)
\* the number a short bit string stands for
BitsValue(bits) ==
    IF bits = <<>> THEN 0
    ELSE 2 * BitsValue(SubSeq(bits, 1, Len(bits) - 1)) + bits[Len(bits)]

\* the limbs of a bit string whose length is a multiple of LimbBits
BitsToLimbs(bits) ==
    [k \in 1..(Len(bits) \div LimbBits) |->
        BitsValue(SubSeq(bits, LimbBits * (k - 1) + 1, LimbBits * k))]

\* a bit string that holds a one, without its leading zeros
StripZeros(bits) ==
    LET first == CHOOSE i \in 1..Len(bits) : bits[i] = 1 /\ \A j \in 1..(i - 1) : bits[j] = 0
    IN SubSeq(bits, first, Len(bits))

RECURSIVE DivLimbs(_, _, _, _)
\* long division of limbs by a positive integer d < 2^15
DivLimbs(limbs, d, q, r) ==
    IF limbs = <<>> THEN [q |-> q, r |-> r]
    ELSE LET cur == LimbBase * r + Head(limbs)
         IN DivLimbs(Tail(limbs), d, Append(q, cur \div d), cur % d)

RECURSIVE MulLimbs(_, _, _)
\* limbs times a positive integer w < 2^15, from the last limb up
MulLimbs(limbs, w, carry) ==
    IF limbs = <<>> THEN <<carry>>
    ELSE LET v == limbs[Len(limbs)] * w + carry
         IN Append(MulLimbs(SubSeq(limbs, 1, Len(limbs) - 1), w, v \div LimbBase), v % LimbBase)

\* a bit string plus one: the bits and the carry out
Increment(bits) ==
    IF \A i \in 1..Len(bits) : bits[i] = 1 THEN [b |-> Zeros(Len(bits)), c |-> 1]
    ELSE LET last == CHOOSE i \in 1..Len(bits) :
                        bits[i] = 0 /\ \A j \in (i + 1)..Len(bits) : bits[j] = 1
         IN [b |-> [i \in 1..Len(bits) |-> IF i < last THEN bits[i] ELSE IF i = last THEN 1 ELSE 0],
             c |-> 0]

\* the float nearest to bits * 2^e (+ something below the last bit if sticky)
RoundToDouble(bits, e, sticky) ==
    LET n == Len(bits)
        p == DoubleMantissaBits
    IN IF n <= p THEN [m |-> bits \o Zeros(p - n), e |-> e - (p - n)]
       ELSE LET kept == SubSeq(bits, 1, p)
                lower == sticky \/ \E i \in (p + 2)..n : bits[i] = 1
                up == bits[p + 1] = 1 /\ (lower \/ kept[p] = 1)
                inc == Increment(kept)
            IN IF ~up THEN [m |-> kept, e |-> e + (n - p)]
               ELSE IF inc.c = 0 THEN [m |-> inc.b, e |-> e + (n - p)]
               ELSE [m |-> <<1>> \o Zeros(p - 1), e |-> e + (n - p) + 1]

\* float(n) for a positive int n < 2^16
float_of_int(n) == RoundToDouble(StripZeros(LimbsToBits(<<n>>)), 0, FALSE)

\* a / b for positive ints a < 2^16, b < 2^15 (true division, correctly rounded)
float_div(a, b) ==
    LET d == DivLimbs(<<a, 0, 0, 0, 0, 0>>, b, <<>>, 0)
    IN RoundToDouble(StripZeros(LimbsToBits(d.q)), 0 - 5 * LimbBits, d.r # 0)

\* n * f for a positive int n < 2^15 and a float f
float_mul_int(n, f) ==
    LET limbs == BitsToLimbs(Zeros(4 * LimbBits - DoubleMantissaBits) \o f.m)
    IN RoundToDouble(StripZeros(LimbsToBits(MulLimbs(limbs, n, 0))), f.e, FALSE)

\* a < b
float_lt(a, b) ==
    \/ a.e < b.e
    \/ /\ a.e = b.e
       /\ \E i \in 1..DoubleMantissaBits :
             a.m[i] < b.m[i] /\ \A j \in 1..(i - 1) : a.m[j] = b.m[j]

\* max(a, b)
float_max(a, b) == IF float_lt(a, b) THEN b ELSE a

\* get_upscale_factor(input_size=(width, height), target_size) lines 400-410
get_upscale_factor(width, height, target_size) ==
    LET width_scale == float_div(target_size, width)
        height_scale == float_div(target_size, height)
    IN float_max(width_scale, height_scale)

\* the targets the pipeline asks for (multiview.py 247, 261; emotion_lighting.py 35)
UpscaleTargets == {768, 1024}

GetUpscaleFactor ==
    /\ UtilReady
    /\ \E width \in 1..MaxInputSide, height \in 1..MaxInputSide, target_size \in UpscaleTargets :
         call' = [fn |-> "get_upscale_factor", width |-> width, height |-> height,
                  target_size |-> target_size,
                  result |-> get_upscale_factor(width, height, target_size)]
    /\ UNCHANGED dataset
    /\ utilIdle

UtilInit == InitSingletons /\ InitSheetIdle /\ InitInferIdle /\ InitUtilIdle

UtilNext ==
    \/ WriteTrainingConfig
    \/ RectangleToSquare
    \/ ResizeIfLarge
    \/ GetUpscaleFactor

SpecUtil == UtilInit /\ [][UtilNext]_vars

\* C21: the config.yaml train_lora writes is the template with every
\* placeholder replaced by its intended value, whatever the character name
\* and the work directory are.
C21_ConfigIsTemplateWithValues ==
    call.fn = "train_lora" =>
        call.result = substituted(call.template, placeholder_values(call.config))

\* C24 as stated: for every image, resize_if_large returns it unchanged when
\* its larger dimension is at most max_size and a max_size x max_size image
\* otherwise.
C24_ResizeThreshold ==
    call.fn = "resize_if_large" =>
        IF Max(call.image.width, call.image.height) <= call.max_size
        THEN call.result = call.image
        ELSE call.result.width = call.max_size /\ call.result.height = call.max_size

\* C24 amended: for every square image, resize_if_large returns it unchanged
\* when its side is at most max_size and a max_size x max_size image otherwise.
C24_ResizeThresholdSquare ==
    (call.fn = "resize_if_large" /\ call.image.width = call.image.height) =>
        IF call.image.width <= call.max_size
        THEN call.result = call.image
        ELSE call.result.width = call.max_size /\ call.result.height = call.max_size

\* a square image exactly at the threshold came back unchanged
C24_Witness ==
    /\ call.fn = "resize_if_large"
    /\ call.image.width = call.image.height
    /\ call.image.width = call.max_size /\ call.max_size > 1
    /\ call.result = call.image

\* C25: rectangle_to_square applied twice gives what it gives applied once;
\* the result is a square of side max(width, height); a square input comes
\* back unchanged; any other input is pasted whole into the square, centred.
C25_SquarePaddingIdempotent ==
    call.fn = "rectangle_to_square" =>
        LET image == call.image
            r == call.result
            size == Max(image.width, image.height)
        IN /\ call.twice = r
           /\ r.width = size /\ r.height = size
           /\ image.width = image.height => r = image
           /\ image.width # image.height =>
                 /\ Len(r.history) = Len(image.history) + 1
                 /\ LET p == r.history[Len(r.history)]
                    IN /\ p.op = "paste" /\ p.w = image.width /\ p.h = image.height
                       /\ p.x >= 0 /\ p.x + p.w <= size
                       /\ p.y >= 0 /\ p.y + p.h <= size
                       /\ (size - p.w - p.x) - p.x \in {0, 1}
                       /\ (size - p.h - p.y) - p.y \in {0, 1}

\* a tall image was padded on both sides
C25_Witness ==
    /\ call.fn = "rectangle_to_square"
    /\ call.image.height > call.image.width + 1
    /\ call.result.history # <<>>
    /\ call.result.history[1].x > 0
    /\ call.twice = call.result

\* C26: the factor f that get_upscale_factor returns for (w, h) and target t
\* is max(t/w, t/h), and max(w, h) * f >= t, w * f >= t and h * f >= t.
C26_UpscaleReachesTarget ==
    call.fn = "get_upscale_factor" =>
        LET f == call.result
            w == call.width
            h == call.height
            t == float_of_int(call.target_size)
        IN /\ f = float_max(float_div(call.target_size, w), float_div(call.target_size, h))
           /\ ~float_lt(float_mul_int(Max(w, h), f), t)
           /\ ~float_lt(float_mul_int(w, f), t)
           /\ ~float_lt(float_mul_int(h, f), t)

(***************************************************************************)
(* Dataset preprocessing (training/utilities.py).  A dataset directory     *)
(* maps a file name to [kind, size, content]: an image with its            *)
(* <<width, height>>, or a text file.                                      *)
(***************************************************************************)
\* the glob patterns in the order both passes build image_files (lines 103-110, 161-168)
dataset_glob_patterns == <<".jpg", ".JPG", ".jpeg", ".JPEG", ".png", ".PNG", ".bmp", ".BMP",
                           ".tiff", ".TIFF", ".webp", ".WEBP">>

\* stems in directory order
DatasetStems == <<"a", "b">>

\* ensure_images_1024x1024 line 171
target_size == 1024

ImageFile(size, content) == [kind |-> "image", size |-> size, content |-> content]

TextFile(content) == [kind |-> "text", size |-> <<0, 0>>, content |-> content]

\* image_files: for each pattern in turn, the names of the directory it matches
image_files(dir) ==
    LET n == Len(dataset_glob_patterns)
        m == Len(DatasetStems)
        all == [k \in 1..(n * m) |->
                   <<DatasetStems[((k - 1) % m) + 1], dataset_glob_patterns[((k - 1) \div m) + 1]>>]
    IN SelectSeq(all, LAMBDA f : f \in DOMAIN dir)

RECURSIVE resize_loop(_, _, _, _)
\* lines 173-194: each image that opens and is not 1024x1024 is squared,
\* resized to 1024x1024 and saved over itself
resize_loop(files, dir, errs, images_processed) ==
    IF files = <<>> THEN [dir |-> dir, result |-> images_processed]
    ELSE LET image_path == Head(files)
         IN IF image_path \in errs
            THEN resize_loop(Tail(files), dir, errs, images_processed)
            ELSE IF dir[image_path].size = <<target_size, target_size>>
            THEN resize_loop(Tail(files), dir, errs, images_processed)
            ELSE resize_loop(Tail(files),
                             WriteFiles(dir, {image_path},
                                        ImageFile(<<target_size, target_size>>, "processed")),
                             errs, images_processed + 1)

\* ensure_images_1024x1024(dataset_dir); errs are the images whose processing raises
ensure_images_1024x1024(dir, errs) == resize_loop(image_files(dir), dir, errs, 0)

RECURSIVE caption_loop(_, _, _, _, _)
\* lines 114-135: an image whose .txt does not exist is captioned and the
\* caption written, unless opening or captioning it raises
caption_loop(files, dir, errs, caption, captions_generated) ==
    IF files = <<>> THEN [dir |-> dir, result |-> captions_generated]
    ELSE LET image_path == Head(files)
             txt_path == <<image_path[1], ".txt">>
         IN IF Exists(dir, txt_path) \/ image_path \in errs
            THEN caption_loop(Tail(files), dir, errs, caption, captions_generated)
            ELSE caption_loop(Tail(files), WriteFiles(dir, {txt_path}, TextFile(caption)),
                              errs, caption, captions_generated + 1)

ensure_captions_for_all_images_overwriting(dir, errs, caption) ==
    LET captioned == Range(image_files(dir)) \ errs
    IN [dir |-> WriteFiles(dir, {<<f[1], ".txt">> : f \in captioned}, TextFile(caption)),
        result |-> Cardinality(captioned)]

\* ensure_captions_for_all_images(dataset_dir); caption is what the captioner answers
ensure_captions_for_all_images(dir, errs, caption) ==
    caption_loop(image_files(dir), dir, errs, caption, 0)

\* the files of `after' that are new or differ from `before'
ChangedFiles(before, after) ==
    {f \in DOMAIN after : f \notin DOMAIN before \/ after[f] # before[f]}

\* the record of a preprocessing pass: what it returned, whether every image
\* went through, what it changed, and the pass that ran right before it
PassRecord(fn, r, errs) ==
    [fn |-> fn, result |-> r.result, ok |-> errs = {}, changed |-> ChangedFiles(dataset, r.dir),
     after |-> IF call.fn \in {"ensure_images_1024x1024", "ensure_captions_for_all_images"}
               THEN [fn |-> call.fn, ok |-> call.ok, result |-> call.result]
               ELSE [fn |-> "none", ok |-> FALSE, result |-> 0]]

EnsureImages ==
    /\ \E errs \in SUBSET Range(image_files(dataset)) :
         LET r == ensure_images_1024x1024(dataset, errs)
         IN /\ dataset' = r.dir
            /\ call' = PassRecord("ensure_images_1024x1024", r, errs)
    /\ utilIdle

\* what the captioner may answer; the response text may be empty (line 84)
Captions == {"a person", ""}

EnsureCaptions ==
    /\ \E errs \in SUBSET Range(image_files(dataset)), caption \in Captions :
         LET r == ensure_captions_for_all_images(dataset, errs, caption)
         IN /\ dataset' = r.dir
            /\ call' = PassRecord("ensure_captions_for_all_images", r, errs)
    /\ utilIdle

\* sizes of the images found in a dataset directory
DatasetSizes == {<<1024, 1024>>, <<768, 1024>>}

DatasetImageNames == {<<"a", ".png">>, <<"a", ".jpg">>, <<"b", ".PNG">>}

DatasetInit ==
    /\ InitSingletons /\ InitSheetIdle /\ InitInferIdle /\ InitAugIdle
    /\ call = NoCall
    /\ \E present \in SUBSET DatasetImageNames, captioned \in SUBSET {<<"a", ".txt">>, <<"b", ".txt">>} :
         \E sizes \in [present -> DatasetSizes] :
            dataset = [f \in present \cup captioned |->
                          IF f \in present THEN ImageFile(sizes[f], "as found")
                          ELSE TextFile("as found")]

DatasetNext == EnsureImages \/ EnsureCaptions

SpecDataset == DatasetInit /\ [][DatasetNext]_vars

IsPass(c) == c.fn \in {"ensure_images_1024x1024", "ensure_captions_for_all_images"}

\* C22: a preprocessing pass that runs right after a fully successful run of
\* the same pass changes no file and returns 0; every pass returns the number
\* of files it changed; and no pass touches a caption file that exists.
C22_PreprocessingIdempotent ==
    /\ [](IsPass(call) => call.result = Cardinality(call.changed))
    /\ []((IsPass(call) /\ call.after.fn = call.fn /\ call.after.ok) =>
             (call.result = 0 /\ call.changed = {}))
    /\ [][\A f \in DOMAIN dataset :
             dataset[f].kind = "text" => (f \in DOMAIN dataset' /\ dataset'[f] = dataset[f])]_vars

\* a second run of each pass after a first run that changed something
C22_Witness ==
    /\ IsPass(call)
    /\ call.after.fn = call.fn /\ call.after.ok /\ call.after.result > 0
    /\ call.result = 0
    /\ \E f \in DOMAIN dataset : dataset[f].kind = "text" /\ dataset[f].content # "as found"

\* C23: once the preprocessing stage of generate_char_sheet has written
\* original.png as a copy of the reference image, it is in the sheet directory
\* with that content at every later point of build_character.
C23_OriginalStaysUnmodified ==
    (bpc \notin {"idle", "raised"} /\ stages # <<>>) =>
        (Exists(work_dir, Png("original")) /\ work_dir[Png("original")] = "reference")

(***************************************************************************)
(* generate_synthetic_images attempt by attempt                            *)
(* (training/pulid_flux_images.py)                                         *)
(***************************************************************************)
augIdle == UNCHANGED <<singletonVars, sheetVars, dirVars, inferVars, call, dataset>>

\* generate_pulidflux_prompts line 74
max_retries == 5

\* generate_pulidflux_images line 190
max_fal_retries == 3

\* what one call of client.models.generate_content leads to (lines 111-148)
LlmOutcomes == {"text", "empty", "rate_limit", "other_error"}

llm_after_attempt_retrying_errors(attempt, outcome) ==
    IF outcome \in {"rate_limit", "other_error"} /\ attempt # max_retries - 1
    THEN "continue" ELSE "break"

\* lines 111-148: after attempt number `attempt' (from 0) the loop goes on
\* only after a rate-limit error that was not the last attempt
llm_after_attempt(attempt, outcome) ==
    IF outcome = "rate_limit" /\ attempt # max_retries - 1 THEN "continue" ELSE "break"

\* lines 154-167: the prompts parsed out of a response with `lines' PROMPT: lines
parsed_prompts(outcome, lines, num_prompts) ==
    IF outcome # "text" THEN <<>>
    ELSE [i \in 1..(IF lines < num_prompts THEN lines ELSE num_prompts) |-> i]

\* what one attempt for one prompt leads to (lines 192-246); an error is
\* retryable when its text holds one of the keywords of line 237
FalOutcomes == {"saved", "download_not_200", "no_images", "error"}

fal_after_attempt_giving_up(fal_attempt, outcome, retryable) ==
    IF outcome = "error" /\ retryable /\ fal_attempt # max_fal_retries - 1 THEN "continue"
    ELSE IF outcome = "error" THEN "return"
    ELSE "break"

\* lines 192-246: after attempt number `fal_attempt' (from 0) for a prompt
fal_after_attempt(fal_attempt, outcome, retryable) ==
    IF outcome = "error" /\ retryable /\ fal_attempt # max_fal_retries - 1 THEN "continue"
    ELSE "break"

\* generate_synthetic_images lines 283-299 and generate_pulidflux_prompts
\* lines 37-40: without FAL_KEY an empty list is returned, without
\* GOOGLE_API_KEY the prompt generation raises and the caller returns []
StartSynthetic ==
    /\ apc = "idle"
    /\ \E fal_key \in BOOLEAN, api_key \in BOOLEAN :
         IF ~fal_key
         THEN /\ apc' = "returned"
              /\ UNCHANGED prompts_status
         ELSE IF ~api_key
         THEN /\ apc' = "returned"
              /\ prompts_status' = "raised"
         ELSE /\ apc' = "llm"
              /\ prompts_status' = "running"
    /\ UNCHANGED <<num_images, llm_calls, prompts, fal_calls, output_image_paths>>
    /\ augIdle

\* one pass through the retry loop of generate_pulidflux_prompts
LlmAttempt ==
    /\ apc = "llm"
    /\ \E outcome \in LlmOutcomes, lines \in 0..(num_images + 1) :
         /\ llm_calls' = Append(llm_calls, outcome)
         /\ IF llm_after_attempt(Len(llm_calls), outcome) = "continue"
            THEN UNCHANGED <<apc, prompts, prompts_status>>
            ELSE /\ prompts' = parsed_prompts(outcome, lines, num_images)
                 /\ prompts_status' = "returned"
                 /\ apc' = "prompts_done"
    /\ UNCHANGED <<num_images, fal_calls, output_image_paths>>
    /\ augIdle

\* generate_synthetic_images lines 301-311 and generate_pulidflux_images
\* lines 170-176: no prompts, or a face image that cannot be read, end in []
StartImages ==
    /\ apc = "prompts_done"
    /\ \E openOk \in BOOLEAN :
         apc' = IF prompts = <<>> \/ ~openOk THEN "returned" ELSE "fal"
    /\ UNCHANGED <<num_images, llm_calls, prompts_status, prompts, fal_calls, output_image_paths>>
    /\ augIdle

\* the prompt the loop of line 179 is at: the one after the last finished
CurrentPrompt ==
    IF fal_calls = <<>> THEN 1
    ELSE LET last == fal_calls[Len(fal_calls)]
         IN IF last.next = "continue" THEN last.prompt ELSE last.prompt + 1

CurrentAttempt ==
    IF fal_calls = <<>> THEN 0
    ELSE LET last == fal_calls[Len(fal_calls)]
         IN IF last.next = "continue" THEN last.fal_attempt + 1 ELSE 0

\* one pass through the retry loop of generate_pulidflux_images for one prompt
FalAttempt ==
    /\ apc = "fal"
    /\ \E outcome \in FalOutcomes, retryable \in BOOLEAN :
         /\ (outcome # "error" => ~retryable)
         /\ LET next == fal_after_attempt(CurrentAttempt, outcome, retryable)
                i == CurrentPrompt
            IN /\ fal_calls' = Append(fal_calls, [prompt |-> i, fal_attempt |-> CurrentAttempt,
                                                  outcome |-> outcome, retryable |-> retryable,
                                                  next |-> next])
               /\ output_image_paths' =
                     IF outcome \in {"saved", "download_not_200"}
                     THEN Append(output_image_paths, Pulid(i - 1))
                     ELSE output_image_paths
               /\ apc' = IF next = "return" \/ (next = "break" /\ i = Len(prompts))
                         THEN "returned" ELSE "fal"
    /\ UNCHANGED <<num_images, llm_calls, prompts_status, prompts>>
    /\ augIdle

AugInit ==
    /\ InitSingletons /\ InitSheetIdle /\ InitInferIdle
    /\ call = NoCall /\ dataset = <<>>
    /\ apc = "idle"
    /\ num_images \in 1..MaxPulid
    /\ llm_calls = <<>> /\ prompts_status = "none" /\ prompts = <<>>
    /\ fal_calls = <<>> /\ output_image_paths = <<>>

AugNext == StartSynthetic \/ LlmAttempt \/ StartImages \/ FalAttempt

SpecAugment == AugInit /\ [][AugNext]_vars

\* C27: generate_pulidflux_prompts makes at most 5 LLM calls, each call but
\* the last ended in a rate-limit error, and whenever the last call gave no
\* text the function returned an empty list.
C27_PromptRetriesOnlyOnRateLimit ==
    /\ Len(llm_calls) <= 5
    /\ \A j \in 1..(Len(llm_calls) - 1) : llm_calls[j] = "rate_limit"
    /\ llm_calls # <<>> => prompts_status \in {"running", "returned"}
    /\ (prompts_status = "returned" /\ llm_calls[Len(llm_calls)] # "text") => prompts = <<>>
    /\ (prompts_status = "running" /\ llm_calls # <<>>) =>
           llm_calls[Len(llm_calls)] = "rate_limit"

\* five rate-limit errors in a row ended in an empty list
C27_Witness ==
    /\ Len(llm_calls) = 5
    /\ llm_calls[5] = "rate_limit"
    /\ prompts_status = "returned" /\ prompts = <<>>

\* the attempts made for prompt i
AttemptsFor(i) == SelectSeq(fal_calls, LAMBDA c : c.prompt = i)

\* C28: every prompt gets between one and 3 attempts; an attempt is followed
\* by another for the same prompt only after a retryable error; after any
\* other attempt the next one is the first for the following prompt; and
\* when the loop has ended every prompt was attempted.
C28_PerPromptRetries ==
    /\ \A j \in 1..Len(fal_calls) : fal_calls[j].fal_attempt < 3
    /\ \A j \in 1..(Len(fal_calls) - 1) :
          LET c == fal_calls[j]
              d == fal_calls[j + 1]
          IN IF d.prompt = c.prompt
             THEN c.outcome = "error" /\ c.retryable /\ d.fal_attempt = c.fal_attempt + 1
             ELSE d.prompt = c.prompt + 1 /\ d.fal_attempt = 0
    /\ fal_calls # <<>> => fal_calls[1].prompt = 1 /\ fal_calls[1].fal_attempt = 0
    /\ (apc = "returned" /\ fal_calls # <<>>) =>
          \A i \in 1..Len(prompts) : AttemptsFor(i) # <<>>

\* the first prompt failed three times, the second failed at once, and the
\* attempts went on to the last prompt
C28_Witness ==
    /\ apc = "returned"
    /\ Len(prompts) >= 2
    /\ Len(AttemptsFor(1)) = 3
    /\ \A j \in 1..3 : AttemptsFor(1)[j].outcome = "error"
    /\ AttemptsFor(Len(prompts))[1].outcome = "saved"
    /\ Len(output_image_paths) = 1

\* C29: when the pipeline samples, the only LoRA it holds is the one of the
\* character this call of generate() asked for.
C29_OnlyRequestedLoraAtSampling ==
    ipc = "sample" => generator.loras = <<inv.character_name>>

\* C30: across every step on a work directory, each image file of the
\* directory is afterwards in the directory or in trash/ with the content it
\* had, and each file of trash/ is still in trash/ with the content it had.
C30_GatherKeepsImageContent ==
    [][/\ \A f \in DOMAIN work_dir :
            IsImageFile(work_dir, f) =>
               \/ (Exists(work_dir', f) /\ work_dir'[f] = work_dir[f])
               \/ (Exists(trash', f) /\ trash'[f] = work_dir[f])
       /\ \A f \in DOMAIN trash : Exists(trash', f) /\ trash'[f] = trash[f]]_vars

====
